---- MODULE Spec2Model ----
(***************************************************************************)
(* A state-machine model of the region-timing engine of GPTL (src/gptl.c): *)
(* the per-thread region list and hash index, the call stack and parent    *)
(* tracker, the start/stop engine, reset, and the pthreads thread          *)
(* registry.                                                               *)
(*                                                                         *)
(* Pointers to Timer structs are pairs <<t, i>>: the i-th Timer of the     *)
(* linked list of thread slot t (i = 1 is the GPTL_ROOT timer).  NULL is   *)
(* the empty tuple.  A timer name is the sequence of its bytes.            *)
(***************************************************************************)
EXTENDS Integers, Sequences, FiniteSets, TLC

(***************************************************************************)
(* Program constants                                                       *)
(***************************************************************************)
MAX_CHARS == 63
MAX_STACK == 128
MAX_THREADS == 64
DEFAULT_TABLE_SIZE == 1023
DEFAULT_DEPTHLIMIT == 99999
ERR == -1
NOTHREAD == -1
NULL == <<>>

(***************************************************************************)
(* Bounds of the model                                                     *)
(***************************************************************************)
\* GPTLinitialize is explored only with maxthreads <= MaxThreads
MaxThreads == 2
\* number of timing calls (start/stop) explored per run
MaxCalls == 6
\* number of GPTLreset calls explored per run
MaxResets == 1
\* number of timing calls explored in the runs with GPTLreset
MaxResetCalls == 4
\* number of timing calls explored in the runs with over-long names
MaxTruncCalls == 3
\* depth of recursion explored, and number of calls ahead of the recursion
MaxRec == 3
MaxPreCalls == 2
\* number of timing calls explored in the runs with two threads
MaxThrCalls == 5
\* number of get_thread_num calls of each thread in the registry runs
MaxGets == 2
\* number of timing calls explored in the runs with reset, enable and disable
MaxEngCalls == 4
\* GPTLpr_file calls
MaxPr == 1
\* timing calls before GPTLpr_file in SpecPr
MaxPrCalls == 5
\* timing calls in the runs on the statistics
MaxStatCalls == 3
\* timing calls in the runs with handles
MaxHandleCalls == 4
\* timing calls in the runs on the wallclock statistics
MaxWallCalls == 4
\* option, time source, initialize, finalize, enable and disable calls, and
\* timing calls, in the lifecycle runs
MaxLifeOps == 5
MaxLifeCalls == 2
\* timing calls in the runs that fill the call stack
MaxDeepCalls == 132
\* timing calls in the runs on the open regions
MaxOpenCalls == 4
\* GPTLsetoption and GPTLinitialize calls in the runs on the option values
MaxOptOps == 3
\* timing calls before GPTLpr_file in the runs on the sorted section
MaxSortCalls == 4
\* timing calls in the runs on the hash table
MaxHashCalls == 3

\* timing calls in the runs that mix calls by name and calls by handle
MaxMixCalls == 4

\* GPTLpr_file calls in the runs that print twice
MaxReports == 2
\* timing calls in the runs of two threads on one handle variable
MaxShareCalls == 4
\* largest sum of the user and system times
MaxCpu == 1
\* largest value of the wallclock
MaxClock == 2

(***************************************************************************)
(* Inputs                                                                  *)
(***************************************************************************)
\* timer names within the longest allowed length: "A", "B", "C"
NameA == <<65>>
NameB == <<66>>
NameC == <<67>>
Names == {NameA, NameB, NameC}
\* the name of the sentinel: "GPTL_ROOT"
ROOTNAME == <<71, 80, 84, 76, 95, 82, 79, 79, 84>>
\* names longer than MAX_CHARS: 63 times "x", then "y" / "z"; and their
\* common first MAX_CHARS bytes
Xs == [i \in 1..MAX_CHARS |-> 120]
LongY == Xs \o <<121>>
LongZ == Xs \o <<122>>
LongNames == {LongY, LongZ}
\* the OS threads (pthread_t values) of the program
Thr1 == 1
Thr2 == 2
Thr3 == 3
Threads == {Thr1, Thr2, Thr3}

VARIABLES
  \* ---- program state (file-scope statics of gptl.c) ----
  initialized,   \* GPTLinitialize has been called
  disabled,      \* timers disabled?
  depthlimit,    \* max depth for timers
  tablesize,     \* per-thread size of hash table
  maxthreads,    \* max threads
  nthreads,      \* num threads
  wallstats,     \* wallstats.enabled
  cpustats,      \* cpustats.enabled
  overheadstats, \* overheadstats.enabled
  method,        \* parent/child printing mechanism
  funcidx,       \* index into funclist of the underlying timing routine
  threadid,      \* array of thread ids, [0..maxthreads-1 -> pthread_t]
  t_mutex,       \* owner of the registry mutex, or NOTHREAD
  timers,        \* [t -> sequence of Timer]: the linked list timers[t] .. last[t]
  hashtable,     \* [t -> [bucket -> sequence of pointers]]; buckets with
                 \* nument = 0 are left out of the domain
  callstack,     \* [t -> [index -> pointer]], index in 0..MAX_STACK-1; the
                 \* elements that are still 0 (NULL) are left out of the domain
  stackidx,      \* [t -> int]
  max_name_len,  \* [t -> int]
  now,           \* the value the underlying timing routine returns
  cputime,       \* the user and system times times() returns
  handle,        \* [name -> the caller's handle variable for that name]
  \* ---- control state of a get_thread_num call in progress ----
  pc,            \* [thread -> label]
  loc,           \* [thread -> locals of get_thread_num]
  \* ---- history variables (not program state) ----
  ret,           \* the last call: [op, th, name, rc]
  nest,          \* [thread -> names of the start calls not yet matched by a stop]
  bal,           \* [thread -> every stop so far matched an open start]
  proper,        \* [thread -> every stop so far matched the innermost open start]
  pairs,         \* [thread -> [name -> number of stops that matched an open start]]
  ncalls,        \* number of timing calls so far
  nresets,       \* number of GPTLreset calls so far
  solo,          \* [thread -> the per-thread structures of a run of that thread alone]
  got,           \* [thread -> indices get_thread_num has returned to it]
  scen,          \* the recursion scenario in progress
  obs            \* what the properties need of the past:
                 \*   nprs: number of GPTLpr_file calls so far,
                 \*   nops: number of lifecycle and option calls so far,
                 \*   open: [thread -> [name -> clock at its outermost open start]],
                 \*   deltas: [thread -> [name -> the wallclock deltas of its
                 \*            completed outermost start/stop pairs]]
                 \*   lvl: [thread -> [name of an open region -> number of
                 \*         starts nested in it and not yet stopped]],
                 \*   utr: the option of the last GPTLsetutr call,
                 \*   val: the value of the last GPTLsetoption call,
                 \*   out: the rows of the section sorted by timer that the
                 \*        last GPTLpr_file printed,
                 \*   first: [thread -> name and address of the regions it has
                 \*          started, in the order of their first starts]

prog == <<initialized, disabled, depthlimit, tablesize, maxthreads, nthreads,
          wallstats, cpustats, overheadstats, method, funcidx, threadid, t_mutex,
          timers, hashtable, callstack, stackidx, max_name_len, now, cputime,
          handle>>
ctl == <<pc, loc>>
hist == <<ret, nest, bal, proper, pairs, ncalls, nresets, solo, got, scen, obs>>
vars == <<prog, ctl, hist>>

(***************************************************************************)
(* Helpers                                                                 *)
(***************************************************************************)
MIN(X, Y) == IF X < Y THEN X ELSE Y

STRMATCH(X, Y) == X = Y

Slots == 0..(maxthreads - 1)

\* The per-thread structures, as one value
World == [timers |-> timers, hashtable |-> hashtable, callstack |-> callstack,
          stackidx |-> stackidx, max_name_len |-> max_name_len]

Deref(w, p) == w.timers[p[1]][p[2]]

\* a Timer after memset (ptr, 0, sizeof (Timer)) and the copy of the name
NewTimer(nm) ==
  [name |-> nm, onflg |-> FALSE, count |-> 0, nrecurse |-> 0, recurselvl |-> 0,
   wall |-> [last |-> 0, accum |-> 0, max |-> 0, min |-> 0],
   cpu |-> [last_utime |-> 0, last_stime |-> 0, accum_utime |-> 0, accum_stime |-> 0],
   parent |-> <<>>, parent_count |-> <<>>, norphan |-> 0, children |-> <<>>,
   address |-> 0]

\* hashtable[t][indx].entries (nument is its length)
Entries(w, t, indx) ==
  IF indx \in DOMAIN w.hashtable[t] THEN w.hashtable[t][indx] ELSE <<>>

\* callstack[t][i]
StackAt(w, t, i) ==
  IF i \in DOMAIN w.callstack[t] THEN w.callstack[t][i] ELSE NULL


\* (float) x of a double x holding an integer: 24 bits of mantissa, round to
\* nearest even
FLT_MANT == 16777216

RECURSIVE Ulp(_)
Ulp(x) == IF x < FLT_MANT THEN 1 ELSE 2 * Ulp(x \div 2)

FloatOfNat(x) ==
  LET u == Ulp(x)
      q == x \div u
      r == x % u
  IN IF 2 * r > u \/ (2 * r = u /\ q % 2 = 1) THEN (q + 1) * u ELSE q * u

ToFloat(x) == IF x >= 0 THEN FloatOfNat(x) ELSE 0 - FloatOfNat(0 - x)

(***************************************************************************)
(* getentry: find the entry in the hash table                              *)
(***************************************************************************)
\* sum of chars times their 1-based position index; at most 255 * (1 + .. + 63),
\* so the unsigned int never wraps
RECURSIVE HashSum(_, _)
HashSum(name, i) ==
  IF i > Len(name) \/ ~(i < MAX_CHARS + 1) THEN 0
  ELSE name[i] * i + HashSum(name, i + 1)

\* the least element of a nonempty set of integers
Least(S) == CHOOSE x \in S : \A y \in S : x <= y

getentry(w, t, name) ==
  LET indx == HashSum(name, 1) % tablesize
      ents == Entries(w, t, indx)
      hits == {i \in 1..Len(ents) : STRMATCH(name, Deref(w, ents[i]).name)}
  IN [indx |-> indx,
      ptr  |-> IF hits = {} THEN NULL ELSE ents[Least(hits)]]

(***************************************************************************)
(* update_ll_hash: append timer tm (just allocated) to the linked list of  *)
(* thread t and to bucket indx; the new Timer is <<t, Len(timers[t])>>     *)
(***************************************************************************)
update_ll_hash(w, tm, t, indx) ==
  LET nchars == Len(tm.name)
      ptr == <<t, Len(w.timers[t]) + 1>>
      ht == w.hashtable[t]
  IN [w EXCEPT
        !.max_name_len[t] = IF nchars > @ THEN nchars ELSE @,
        !.timers[t] = Append(@, tm),
        !.hashtable[t] = [b \in (DOMAIN ht) \cup {indx} |->
                            IF b = indx THEN Append(Entries(w, t, indx), ptr)
                            ELSE ht[b]]]

(***************************************************************************)
(* update_parent_info                                                      *)
(***************************************************************************)
\* update_parent_info counting a region started directly under the root as
\* an orphan, the root not recorded as its parent
update_parent_info_rootorphan(w, ptr, t, stackidxt) ==
  IF ptr = NULL THEN [w |-> w, rc |-> ERR]
  ELSE IF stackidxt < 0 THEN [w |-> w, rc |-> ERR]
  ELSE
    LET cs == w.callstack[t]
        w1 == [w EXCEPT !.callstack[t] =
                 [i \in (DOMAIN cs) \cup {stackidxt} |->
                    IF i = stackidxt THEN ptr ELSE cs[i]]]
        tm == Deref(w1, ptr)
    IN IF stackidxt <= 1
       THEN [w |-> [w1 EXCEPT !.timers[ptr[1]][ptr[2]].norphan = @ + 1], rc |-> 0]
       ELSE
         LET pptr == StackAt(w1, t, stackidxt - 1)
             hits == {n \in 1..Len(tm.parent) : tm.parent[n] = pptr}
         IN IF hits # {}
            THEN [w |-> [w1 EXCEPT !.timers[ptr[1]][ptr[2]].parent_count[Least(hits)] = @ + 1],
                  rc |-> 0]
            ELSE [w |-> [w1 EXCEPT !.timers[ptr[1]][ptr[2]].parent = Append(@, pptr),
                                   !.timers[ptr[1]][ptr[2]].parent_count = Append(@, 1)],
                  rc |-> 0]

\* update_parent_info without the search of the known parents
update_parent_info_nosearch(w, ptr, t, stackidxt) ==
  IF ptr = NULL THEN [w |-> w, rc |-> ERR]
  ELSE IF stackidxt < 0 THEN [w |-> w, rc |-> ERR]
  ELSE
    LET cs == w.callstack[t]
        w1 == [w EXCEPT !.callstack[t] =
                 [i \in (DOMAIN cs) \cup {stackidxt} |->
                    IF i = stackidxt THEN ptr ELSE cs[i]]]
    IN IF stackidxt = 0
       THEN [w |-> [w1 EXCEPT !.timers[ptr[1]][ptr[2]].norphan = @ + 1], rc |-> 0]
       ELSE
         LET pptr == StackAt(w1, t, stackidxt - 1)
         IN [w |-> [w1 EXCEPT !.timers[ptr[1]][ptr[2]].parent = Append(@, pptr),
                              !.timers[ptr[1]][ptr[2]].parent_count = Append(@, 1)],
             rc |-> 0]

update_parent_info(w, ptr, t, stackidxt) ==
  IF ptr = NULL THEN [w |-> w, rc |-> ERR]
  ELSE IF stackidxt < 0 THEN [w |-> w, rc |-> ERR]
  ELSE
    LET cs == w.callstack[t]
        w1 == [w EXCEPT !.callstack[t] =
                 [i \in (DOMAIN cs) \cup {stackidxt} |->
                    IF i = stackidxt THEN ptr ELSE cs[i]]]
        tm == Deref(w1, ptr)
    IN IF stackidxt = 0
       THEN [w |-> [w1 EXCEPT !.timers[ptr[1]][ptr[2]].norphan = @ + 1], rc |-> 0]
       ELSE
         LET pptr == StackAt(w1, t, stackidxt - 1)
             hits == {n \in 1..Len(tm.parent) : tm.parent[n] = pptr}
         IN IF hits # {}
            THEN [w |-> [w1 EXCEPT !.timers[ptr[1]][ptr[2]].parent_count[Least(hits)] = @ + 1],
                  rc |-> 0]
            ELSE [w |-> [w1 EXCEPT !.timers[ptr[1]][ptr[2]].parent = Append(@, pptr),
                                   !.timers[ptr[1]][ptr[2]].parent_count = Append(@, 1)],
                  rc |-> 0]

(***************************************************************************)
(* update_ptr: the timer is turned on and its start time is taken          *)
(***************************************************************************)
update_ptr(w, ptr, t) ==
  [w EXCEPT !.timers[ptr[1]][ptr[2]].onflg = TRUE,
            !.timers[ptr[1]][ptr[2]].cpu.last_utime = IF cpustats THEN cputime.usr ELSE @,
            !.timers[ptr[1]][ptr[2]].cpu.last_stime = IF cpustats THEN cputime.sys ELSE @,
            !.timers[ptr[1]][ptr[2]].wall.last = IF wallstats THEN now ELSE @]

(***************************************************************************)
(* update_stats: the timer is turned off, the stack popped, the delta      *)
(* accumulated                                                             *)
(***************************************************************************)
\* the user and system times GPTLstop hands to update_stats: its locals usr
\* and sys, 0 unless cpustats is enabled
Usr == IF cpustats THEN cputime.usr ELSE 0

Sys == IF cpustats THEN cputime.sys ELSE 0

update_stats(w, ptr, tp1, usr, sys, t) ==
  LET w1 == [w EXCEPT !.timers[ptr[1]][ptr[2]].onflg = FALSE,
                      !.stackidx[t] = @ - 1]
  IN IF w1.stackidx[t] < -1
     THEN [w |-> [w1 EXCEPT !.stackidx[t] = -1], rc |-> ERR]
     ELSE
       LET tm == Deref(w1, ptr)
           delta == tp1 - tm.wall.last
           mx == IF tm.count = 1 THEN ToFloat(delta)
                 ELSE IF delta > tm.wall.max THEN ToFloat(delta) ELSE tm.wall.max
           mn == IF tm.count = 1 THEN ToFloat(delta)
                 ELSE IF delta < tm.wall.min THEN ToFloat(delta) ELSE tm.wall.min
           w2 == IF ~wallstats THEN w1
                 ELSE [w1 EXCEPT !.timers[ptr[1]][ptr[2]].wall =
                         [last |-> tm.wall.last, accum |-> tm.wall.accum + delta,
                          max |-> mx, min |-> mn]]
           w3 == IF ~cpustats THEN w2
                 ELSE [w2 EXCEPT !.timers[ptr[1]][ptr[2]].cpu =
                         [accum_utime |-> tm.cpu.accum_utime + (usr - tm.cpu.last_utime),
                          accum_stime |-> tm.cpu.accum_stime + (sys - tm.cpu.last_stime),
                          last_utime |-> usr, last_stime |-> sys]]
       IN [w |-> w3, rc |-> 0]


(***************************************************************************)
(* get_thread_num (THREADED_PTHREADS), as one atomic step: the index of    *)
(* the calling thread th, registering it on its first call                 *)
(***************************************************************************)
Greatest(S) == CHOOSE x \in S : \A y \in S : x >= y

\* get_thread_num giving every thread index 0
get_thread_num_zero(th) ==
  IF nthreads >= 1
  THEN [retval |-> 0, threadid |-> threadid, nthreads |-> nthreads]
  ELSE [retval |-> 0, threadid |-> [threadid EXCEPT ![0] = th], nthreads |-> 1]

get_thread_num(th) ==
  LET found == {t \in 0..(nthreads - 1) : threadid[t] = th}
  IN IF found # {}
     THEN [retval |-> Greatest(found), threadid |-> threadid, nthreads |-> nthreads]
     ELSE IF nthreads >= maxthreads
     THEN [retval |-> ERR, threadid |-> threadid, nthreads |-> nthreads]
     ELSE [retval |-> nthreads,
           threadid |-> [threadid EXCEPT ![nthreads] = th],
           nthreads |-> nthreads + 1]

(***************************************************************************)
(* GPTLstart and GPTLstop on the structures of thread slot t (the part of  *)
(* the function after get_thread_num)                                      *)
(***************************************************************************)
\* GPTLstart_t with the depth test off by one (> for >=)
GPTLstart_t_gt(w, t, name) ==
  IF w.stackidx[t] > depthlimit
  THEN [w |-> [w EXCEPT !.stackidx[t] = @ + 1], rc |-> 0]
  ELSE
    LET e == getentry(w, t, name)
    IN IF e.ptr # NULL /\ Deref(w, e.ptr).onflg
       THEN [w |-> [w EXCEPT !.timers[e.ptr[1]][e.ptr[2]].recurselvl = @ + 1],
             rc |-> 0]
       ELSE
         LET w1 == [w EXCEPT !.stackidx[t] = @ + 1]
         IN IF w1.stackidx[t] > MAX_STACK - 1
            THEN [w |-> w1, rc |-> ERR]
            ELSE
              LET numchars == MIN(Len(name), MAX_CHARS)
                  w2 == IF e.ptr = NULL
                        THEN update_ll_hash(w1, NewTimer(SubSeq(name, 1, numchars)),
                                            t, e.indx)
                        ELSE w1
                  ptr == IF e.ptr = NULL THEN <<t, Len(w2.timers[t])>> ELSE e.ptr
                  r3 == update_parent_info(w2, ptr, t, w2.stackidx[t])
              IN IF r3.rc # 0
                 THEN [w |-> r3.w, rc |-> ERR]
                 ELSE [w |-> update_ptr(r3.w, ptr, t), rc |-> 0]

GPTLstart_t(w, t, name) ==
  IF w.stackidx[t] >= depthlimit
  THEN [w |-> [w EXCEPT !.stackidx[t] = @ + 1], rc |-> 0]
  ELSE
    LET e == getentry(w, t, name)
    IN IF e.ptr # NULL /\ Deref(w, e.ptr).onflg
       THEN [w |-> [w EXCEPT !.timers[e.ptr[1]][e.ptr[2]].recurselvl = @ + 1],
             rc |-> 0]
       ELSE
         LET w1 == [w EXCEPT !.stackidx[t] = @ + 1]
         IN IF w1.stackidx[t] > MAX_STACK - 1
            THEN [w |-> w1, rc |-> ERR]
            ELSE
              LET numchars == MIN(Len(name), MAX_CHARS)
                  w2 == IF e.ptr = NULL
                        THEN update_ll_hash(w1, NewTimer(SubSeq(name, 1, numchars)),
                                            t, e.indx)
                        ELSE w1
                  ptr == IF e.ptr = NULL THEN <<t, Len(w2.timers[t])>> ELSE e.ptr
                  r3 == update_parent_info(w2, ptr, t, w2.stackidx[t])
              IN IF r3.rc # 0
                 THEN [w |-> r3.w, rc |-> ERR]
                 ELSE [w |-> update_ptr(r3.w, ptr, t), rc |-> 0]

\* GPTLstop_t with ++ptr->count moved before the test of onflg
GPTLstop_t_countfirst(w, t, name, tp1) ==
  IF w.stackidx[t] > depthlimit
  THEN [w |-> [w EXCEPT !.stackidx[t] = @ - 1], rc |-> 0]
  ELSE
    LET e == getentry(w, t, name)
    IN IF e.ptr = NULL THEN [w |-> w, rc |-> ERR]
       ELSE
         LET w1 == [w EXCEPT !.timers[e.ptr[1]][e.ptr[2]].count = @ + 1]
         IN IF ~Deref(w, e.ptr).onflg THEN [w |-> w1, rc |-> ERR]
            ELSE IF Deref(w1, e.ptr).recurselvl > 0
            THEN [w |-> [w1 EXCEPT !.timers[e.ptr[1]][e.ptr[2]].nrecurse = @ + 1,
                                   !.timers[e.ptr[1]][e.ptr[2]].recurselvl = @ - 1],
                  rc |-> 0]
            ELSE update_stats(w1, e.ptr, tp1, Usr, Sys, t)

\* GPTLstop_t without the test of recurselvl
GPTLstop_t_norec(w, t, name, tp1) ==
  IF w.stackidx[t] > depthlimit
  THEN [w |-> [w EXCEPT !.stackidx[t] = @ - 1], rc |-> 0]
  ELSE
    LET e == getentry(w, t, name)
    IN IF e.ptr = NULL THEN [w |-> w, rc |-> ERR]
       ELSE IF ~Deref(w, e.ptr).onflg THEN [w |-> w, rc |-> ERR]
       ELSE update_stats([w EXCEPT !.timers[e.ptr[1]][e.ptr[2]].count = @ + 1],
                         e.ptr, tp1, Usr, Sys, t)

\* GPTLstop_t without ++ptr->nrecurse
GPTLstop_t_nonrecurse(w, t, name, tp1) ==
  IF w.stackidx[t] > depthlimit
  THEN [w |-> [w EXCEPT !.stackidx[t] = @ - 1], rc |-> 0]
  ELSE
    LET e == getentry(w, t, name)
    IN IF e.ptr = NULL THEN [w |-> w, rc |-> ERR]
       ELSE IF ~Deref(w, e.ptr).onflg THEN [w |-> w, rc |-> ERR]
       ELSE
         LET w1 == [w EXCEPT !.timers[e.ptr[1]][e.ptr[2]].count = @ + 1]
         IN IF Deref(w1, e.ptr).recurselvl > 0
            THEN [w |-> [w1 EXCEPT !.timers[e.ptr[1]][e.ptr[2]].recurselvl = @ - 1],
                  rc |-> 0]
            ELSE update_stats(w1, e.ptr, tp1, Usr, Sys, t)

\* GPTLstop_t refusing to stop a timer that is not the innermost open one
GPTLstop_t_top(w, t, name, tp1) ==
  IF w.stackidx[t] > depthlimit
  THEN [w |-> [w EXCEPT !.stackidx[t] = @ - 1], rc |-> 0]
  ELSE
    LET e == getentry(w, t, name)
    IN IF e.ptr = NULL THEN [w |-> w, rc |-> ERR]
       ELSE IF ~Deref(w, e.ptr).onflg THEN [w |-> w, rc |-> ERR]
       ELSE IF StackAt(w, t, w.stackidx[t]) # e.ptr THEN [w |-> w, rc |-> ERR]
       ELSE
         LET w1 == [w EXCEPT !.timers[e.ptr[1]][e.ptr[2]].count = @ + 1]
         IN IF Deref(w1, e.ptr).recurselvl > 0
            THEN [w |-> [w1 EXCEPT !.timers[e.ptr[1]][e.ptr[2]].nrecurse = @ + 1,
                                   !.timers[e.ptr[1]][e.ptr[2]].recurselvl = @ - 1],
                  rc |-> 0]
            ELSE update_stats(w1, e.ptr, tp1, Usr, Sys, t)

GPTLstop_t(w, t, name, tp1) ==
  IF w.stackidx[t] > depthlimit
  THEN [w |-> [w EXCEPT !.stackidx[t] = @ - 1], rc |-> 0]
  ELSE
    LET e == getentry(w, t, name)
    IN IF e.ptr = NULL THEN [w |-> w, rc |-> ERR]
       ELSE IF ~Deref(w, e.ptr).onflg THEN [w |-> w, rc |-> ERR]
       ELSE
         LET w1 == [w EXCEPT !.timers[e.ptr[1]][e.ptr[2]].count = @ + 1]
         IN IF Deref(w1, e.ptr).recurselvl > 0
            THEN [w |-> [w1 EXCEPT !.timers[e.ptr[1]][e.ptr[2]].nrecurse = @ + 1,
                                   !.timers[e.ptr[1]][e.ptr[2]].recurselvl = @ - 1],
                  rc |-> 0]
            ELSE update_stats(w1, e.ptr, tp1, Usr, Sys, t)

(***************************************************************************)
(* GPTLstart_handle and GPTLstop_handle on the structures of thread slot   *)
(* t; h is the value of *handle (NULL or a pointer to a Timer)             *)
(***************************************************************************)
GPTLstart_handle_t(w, t, name, h) ==
  IF w.stackidx[t] >= depthlimit
  THEN [w |-> [w EXCEPT !.stackidx[t] = @ + 1], rc |-> 0, h |-> h]
  ELSE
    LET e == IF h # NULL THEN [ptr |-> h, indx |-> -1] ELSE getentry(w, t, name)
    IN IF e.ptr # NULL /\ Deref(w, e.ptr).onflg
       THEN [w |-> [w EXCEPT !.timers[e.ptr[1]][e.ptr[2]].recurselvl = @ + 1],
             rc |-> 0, h |-> h]
       ELSE
         LET w1 == [w EXCEPT !.stackidx[t] = @ + 1]
         IN IF w1.stackidx[t] > MAX_STACK - 1
            THEN [w |-> w1, rc |-> ERR, h |-> h]
            ELSE
              LET numchars == MIN(Len(name), MAX_CHARS)
                  w2 == IF e.ptr = NULL
                        THEN update_ll_hash(w1, NewTimer(SubSeq(name, 1, numchars)),
                                            t, e.indx)
                        ELSE w1
                  ptr == IF e.ptr = NULL THEN <<t, Len(w2.timers[t])>> ELSE e.ptr
                  r3 == update_parent_info(w2, ptr, t, w2.stackidx[t])
              IN IF r3.rc # 0
                 THEN [w |-> r3.w, rc |-> ERR, h |-> h]
                 ELSE [w |-> update_ptr(r3.w, ptr, t), rc |-> 0,
                       h |-> IF h = NULL THEN ptr ELSE h]

\* GPTLstop_handle_t taking a handle that is 0 for a region to skip
GPTLstop_handle_t_nullok(w, t, h, tp1) ==
  IF w.stackidx[t] > depthlimit
  THEN [w |-> [w EXCEPT !.stackidx[t] = @ - 1], rc |-> 0]
  ELSE IF h = NULL THEN [w |-> w, rc |-> 0]
  ELSE IF ~Deref(w, h).onflg THEN [w |-> w, rc |-> ERR]
  ELSE
    LET w1 == [w EXCEPT !.timers[h[1]][h[2]].count = @ + 1]
    IN IF Deref(w1, h).recurselvl > 0
       THEN [w |-> [w1 EXCEPT !.timers[h[1]][h[2]].nrecurse = @ + 1,
                              !.timers[h[1]][h[2]].recurselvl = @ - 1],
             rc |-> 0]
       ELSE update_stats(w1, h, tp1, Usr, Sys, t)

GPTLstop_handle_t(w, t, h, tp1) ==
  IF w.stackidx[t] > depthlimit
  THEN [w |-> [w EXCEPT !.stackidx[t] = @ - 1], rc |-> 0]
  ELSE IF h = NULL THEN [w |-> w, rc |-> ERR]
  ELSE IF ~Deref(w, h).onflg THEN [w |-> w, rc |-> ERR]
  ELSE
    LET w1 == [w EXCEPT !.timers[h[1]][h[2]].count = @ + 1]
    IN IF Deref(w1, h).recurselvl > 0
       THEN [w |-> [w1 EXCEPT !.timers[h[1]][h[2]].nrecurse = @ + 1,
                              !.timers[h[1]][h[2]].recurselvl = @ - 1],
             rc |-> 0]
       ELSE update_stats(w1, h, tp1, Usr, Sys, t)

(***************************************************************************)
(* GPTLstart_instr and GPTLstop_instr on the structures of thread slot t:  *)
(* the region is found by the address self of the instrumented function,   *)
(* and its name is the address printed with %lx                            *)
(***************************************************************************)
\* the ASCII code of a hexadecimal digit
HexDigit(d) == IF d < 10 THEN 48 + d ELSE 87 + d

RECURSIVE HexString(_)
HexString(x) ==
  IF x < 16 THEN <<HexDigit(x)>> ELSE Append(HexString(x \div 16), HexDigit(x % 16))

\* getentry_instr without the right shift of the address
getentry_instr_noshift(w, t, self) ==
  LET indx == self % tablesize
      ents == Entries(w, t, indx)
      hits == {i \in 1..Len(ents) : Deref(w, ents[i]).address = self}
  IN [indx |-> indx,
      ptr  |-> IF hits = {} THEN NULL ELSE ents[Least(hits)]]

getentry_instr(w, t, self) ==
  LET indx == (self \div 16) % tablesize
      ents == Entries(w, t, indx)
      hits == {i \in 1..Len(ents) : Deref(w, ents[i]).address = self}
  IN [indx |-> indx,
      ptr  |-> IF hits = {} THEN NULL ELSE ents[Least(hits)]]

GPTLstart_instr_t(w, t, self) ==
  IF w.stackidx[t] >= depthlimit
  THEN [w |-> [w EXCEPT !.stackidx[t] = @ + 1], rc |-> 0]
  ELSE
    LET e == getentry_instr(w, t, self)
    IN IF e.ptr # NULL /\ Deref(w, e.ptr).onflg
       THEN [w |-> [w EXCEPT !.timers[e.ptr[1]][e.ptr[2]].recurselvl = @ + 1],
             rc |-> 0]
       ELSE
         LET w1 == [w EXCEPT !.stackidx[t] = @ + 1]
         IN IF w1.stackidx[t] > MAX_STACK - 1
            THEN [w |-> w1, rc |-> ERR]
            ELSE
              LET hex == HexString(self)
                  nm == SubSeq(hex, 1, MIN(Len(hex), MAX_CHARS))
                  w2 == IF e.ptr = NULL
                        THEN update_ll_hash(w1, [NewTimer(nm) EXCEPT !.address = self],
                                            t, e.indx)
                        ELSE w1
                  ptr == IF e.ptr = NULL THEN <<t, Len(w2.timers[t])>> ELSE e.ptr
                  r3 == update_parent_info(w2, ptr, t, w2.stackidx[t])
              IN IF r3.rc # 0
                 THEN [w |-> r3.w, rc |-> ERR]
                 ELSE [w |-> update_ptr(r3.w, ptr, t), rc |-> 0]

GPTLstop_instr_t(w, t, self, tp1) ==
  IF w.stackidx[t] > depthlimit
  THEN [w |-> [w EXCEPT !.stackidx[t] = @ - 1], rc |-> 0]
  ELSE
    LET e == getentry_instr(w, t, self)
    IN IF e.ptr = NULL THEN [w |-> w, rc |-> ERR]
       ELSE IF ~Deref(w, e.ptr).onflg THEN [w |-> w, rc |-> ERR]
       ELSE
         LET w1 == [w EXCEPT !.timers[e.ptr[1]][e.ptr[2]].count = @ + 1]
         IN IF Deref(w1, e.ptr).recurselvl > 0
            THEN [w |-> [w1 EXCEPT !.timers[e.ptr[1]][e.ptr[2]].nrecurse = @ + 1,
                                   !.timers[e.ptr[1]][e.ptr[2]].recurselvl = @ - 1],
                  rc |-> 0]
            ELSE update_stats(w1, e.ptr, tp1, Usr, Sys, t)

(***************************************************************************)
(* The operations of the library                                           *)
(***************************************************************************)
Return(op, th, name, rc) == ret' = [op |-> op, th |-> th, name |-> name, rc |-> rc]

SetWorld(w) ==
  /\ timers' = w.timers
  /\ hashtable' = w.hashtable
  /\ callstack' = w.callstack
  /\ stackidx' = w.stackidx
  /\ max_name_len' = w.max_name_len

world == <<timers, hashtable, callstack, stackidx, max_name_len>>
config == <<initialized, disabled, depthlimit, tablesize, maxthreads, wallstats,
           cpustats, overheadstats, method, funcidx>>

\* the options GPTLsetoption knows in a build without PAPI and PMPI
BoolOptions == {"GPTLwall", "GPTLcpu", "GPTLoverhead"}

Options == BoolOptions \cup {"GPTLdepthlimit", "GPTLprint_method", "GPTLtablesize",
                             "GPTLmaxthreads"}

Methods == {"GPTLfirst_parent", "GPTLlast_parent", "GPTLmost_frequent", "GPTLfull_tree"}

\* GPTLsetoption without the test of initialized
GPTLsetoption_noinitcheck(option, val) ==
  /\ UNCHANGED <<initialized, disabled, funcidx, nthreads, threadid, t_mutex, world,
                 now, cputime, handle>>
  /\ cpustats' = IF option = "GPTLcpu" THEN val # 0 ELSE cpustats
  /\ wallstats' = IF option = "GPTLwall" THEN val # 0 ELSE wallstats
  /\ overheadstats' = IF option = "GPTLoverhead" THEN val # 0 ELSE overheadstats
  /\ depthlimit' = IF option = "GPTLdepthlimit" THEN val ELSE depthlimit
  /\ method' = IF option = "GPTLprint_method" THEN val ELSE method
  /\ tablesize' = IF option = "GPTLtablesize" /\ ~(val < 1) THEN val
                  ELSE tablesize
  /\ maxthreads' = IF option = "GPTLmaxthreads" /\ ~(val < 1) THEN val
                   ELSE maxthreads
  /\ Return("GPTLsetoption", NOTHREAD, option,
            IF option \in {"GPTLtablesize", "GPTLmaxthreads"} /\ val < 1
            THEN ERR
            ELSE IF option \in Options THEN 0 ELSE ERR)

GPTLsetoption(option, val) ==
  /\ UNCHANGED <<initialized, disabled, funcidx, nthreads, threadid, t_mutex, world,
                 now, cputime, handle>>
  /\ IF initialized
     THEN /\ Return("GPTLsetoption", NOTHREAD, option, ERR)
          /\ UNCHANGED <<depthlimit, tablesize, maxthreads, wallstats, cpustats,
                         overheadstats, method>>
     ELSE /\ cpustats' = IF option = "GPTLcpu" THEN val # 0 ELSE cpustats
          /\ wallstats' = IF option = "GPTLwall" THEN val # 0 ELSE wallstats
          /\ overheadstats' = IF option = "GPTLoverhead" THEN val # 0 ELSE overheadstats
          /\ depthlimit' = IF option = "GPTLdepthlimit" THEN val ELSE depthlimit
          /\ method' = IF option = "GPTLprint_method" THEN val ELSE method
          /\ tablesize' = IF option = "GPTLtablesize" /\ ~(val < 1) THEN val
                          ELSE tablesize
          /\ maxthreads' = IF option = "GPTLmaxthreads" /\ ~(val < 1) THEN val
                           ELSE maxthreads
          /\ Return("GPTLsetoption", NOTHREAD, option,
                    IF option \in {"GPTLtablesize", "GPTLmaxthreads"} /\ val < 1
                    THEN ERR
                    ELSE IF option \in Options THEN 0 ELSE ERR)

\* funclist: the underlying timing routines, by index
funclist == <<"GPTLgettimeofday", "GPTLnanotime", "GPTLmpiwtime", "GPTLclockgettime",
              "GPTLpapitime", "GPTLread_real_time", "GPTLplacebo">>

\* the init routine of funclist[i + 1]: in a build with gettimeofday and
\* without nanotime, MPI, librt, PAPI and AIX only gettimeofday and the
\* placebo are available
funcinit(i) == IF funclist[i + 1] \in {"GPTLgettimeofday", "GPTLplacebo"} THEN 0 ELSE ERR

GPTLsetutr(option) ==
  /\ UNCHANGED <<initialized, disabled, depthlimit, tablesize, maxthreads, wallstats,
                 cpustats, overheadstats, method, nthreads, threadid, t_mutex, world,
                 now, cputime, handle>>
  /\ IF initialized
     THEN Return("GPTLsetutr", NOTHREAD, option, ERR) /\ UNCHANGED funcidx
     ELSE LET hits == {i \in 0..(Len(funclist) - 1) : funclist[i + 1] = option}
          IN IF hits = {}
             THEN Return("GPTLsetutr", NOTHREAD, option, ERR) /\ UNCHANGED funcidx
             ELSE /\ funcidx' = Least(hits)
                  /\ Return("GPTLsetutr", NOTHREAD, option, funcinit(Least(hits)))

GPTLenable ==
  /\ disabled' = FALSE
  /\ Return("GPTLenable", NOTHREAD, <<>>, 0)
  /\ UNCHANGED <<initialized, depthlimit, tablesize, maxthreads, wallstats, cpustats,
                 overheadstats, method, funcidx, nthreads, threadid, t_mutex, world,
                 now, cputime, handle>>

GPTLdisable ==
  /\ disabled' = TRUE
  /\ Return("GPTLdisable", NOTHREAD, <<>>, 0)
  /\ UNCHANGED <<initialized, depthlimit, tablesize, maxthreads, wallstats, cpustats,
                 overheadstats, method, funcidx, nthreads, threadid, t_mutex, world,
                 now, cputime, handle>>

\* the arrays GPTLinitialize allocates, for maxthreads thread slots
InitialWorld ==
  [timers       |-> [t \in Slots |-> <<[NewTimer(ROOTNAME) EXCEPT !.onflg = TRUE]>>],
   hashtable    |-> [t \in Slots |-> <<>>],
   callstack    |-> [t \in Slots |-> [i \in {0} |-> <<t, 1>>]],
   stackidx     |-> [t \in Slots |-> 0],
   max_name_len |-> [t \in Slots |-> 0]]

\* the structures of a thread that is alone in the program (it has slot 0)
SoloWorld ==
  [timers |-> [t \in {0} |-> <<[NewTimer(ROOTNAME) EXCEPT !.onflg = TRUE]>>],
   hashtable |-> [t \in {0} |-> <<>>],
   callstack |-> [t \in {0} |-> [i \in {0} |-> <<0, 1>>]],
   stackidx |-> [t \in {0} |-> 0],
   max_name_len |-> [t \in {0} |-> 0]]

\* GPTLinitialize without the fallback to funclist[0]
GPTLinitialize_nofallback ==
  /\ maxthreads <= MaxThreads
  /\ UNCHANGED <<disabled, depthlimit, tablesize, maxthreads, wallstats, cpustats,
                 overheadstats, method, t_mutex, now, cputime, handle>>
  /\ IF initialized \/ nthreads # -1
     THEN /\ Return("GPTLinitialize", NOTHREAD, <<>>, ERR)
          /\ UNCHANGED <<initialized, funcidx, nthreads, threadid, world>>
     ELSE /\ nthreads' = 0
          /\ threadid' = [t \in Slots |-> NOTHREAD]
          /\ SetWorld(InitialWorld)
          /\ UNCHANGED funcidx
          /\ initialized' = TRUE
          /\ Return("GPTLinitialize", NOTHREAD, <<>>, 0)

GPTLinitialize ==
  /\ maxthreads <= MaxThreads
  /\ UNCHANGED <<disabled, depthlimit, tablesize, maxthreads, wallstats, cpustats,
                 overheadstats, method, t_mutex, now, cputime, handle>>
  /\ IF initialized \/ nthreads # -1
     THEN /\ Return("GPTLinitialize", NOTHREAD, <<>>, ERR)
          /\ UNCHANGED <<initialized, funcidx, nthreads, threadid, world>>
     ELSE /\ nthreads' = 0
          /\ threadid' = [t \in Slots |-> NOTHREAD]
          /\ SetWorld(InitialWorld)
          /\ funcidx' = IF funcinit(funcidx) < 0 THEN 0 ELSE funcidx
          /\ initialized' = TRUE
          /\ Return("GPTLinitialize", NOTHREAD, <<>>, 0)

\* GPTLfinalize: everything allocated is freed (the freed arrays are modelled
\* empty, as before GPTLinitialize) and the values it lists are reset
GPTLfinalize ==
  /\ UNCHANGED <<wallstats, cpustats, overheadstats, method, t_mutex, now, cputime,
                 handle>>
  /\ IF ~initialized
     THEN /\ Return("GPTLfinalize", NOTHREAD, <<>>, ERR)
          /\ UNCHANGED <<initialized, disabled, depthlimit, tablesize, maxthreads,
                         funcidx, nthreads, threadid, world>>
     ELSE /\ timers' = <<>>
          /\ hashtable' = <<>>
          /\ callstack' = <<>>
          /\ stackidx' = <<>>
          /\ max_name_len' = <<>>
          /\ threadid' = <<>>
          /\ nthreads' = -1
          /\ maxthreads' = MAX_THREADS
          /\ depthlimit' = DEFAULT_DEPTHLIMIT
          /\ disabled' = FALSE
          /\ initialized' = FALSE
          /\ funcidx' = 0
          /\ tablesize' = DEFAULT_TABLE_SIZE
          /\ Return("GPTLfinalize", NOTHREAD, <<>>, 0)

GPTLstart(th, name) ==
  IF disabled
  THEN Return("GPTLstart", th, name, 0) /\ UNCHANGED prog
  ELSE IF ~initialized
  THEN Return("GPTLstart", th, name, ERR) /\ UNCHANGED prog
  ELSE
    LET g == get_thread_num(th)
    IN /\ threadid' = g.threadid
       /\ nthreads' = g.nthreads
       /\ UNCHANGED <<config, t_mutex, now, cputime, handle>>
       /\ IF g.retval < 0
          THEN Return("GPTLstart", th, name, ERR) /\ UNCHANGED world
          ELSE LET r == GPTLstart_t(World, g.retval, name)
               IN SetWorld(r.w) /\ Return("GPTLstart", th, name, r.rc)

GPTLstop(th, name) ==
  IF disabled
  THEN Return("GPTLstop", th, name, 0) /\ UNCHANGED prog
  ELSE IF ~initialized
  THEN Return("GPTLstop", th, name, ERR) /\ UNCHANGED prog
  ELSE
    LET tp1 == IF wallstats THEN now ELSE 0
        g == get_thread_num(th)
    IN /\ threadid' = g.threadid
       /\ nthreads' = g.nthreads
       /\ UNCHANGED <<config, t_mutex, now, cputime, handle>>
       /\ IF g.retval < 0
          THEN Return("GPTLstop", th, name, ERR) /\ UNCHANGED world
          ELSE LET r == GPTLstop_t(World, g.retval, name, tp1)
               IN SetWorld(r.w) /\ Return("GPTLstop", th, name, r.rc)

\* GPTLreset without the memset of ptr->cpu
\* the caller's handle variable for name (0 until a start has stored a pointer)
HandleOf(name) == IF name \in DOMAIN handle THEN handle[name] ELSE NULL

GPTLstart_handle(th, name) ==
  IF disabled
  THEN Return("GPTLstart_handle", th, name, 0) /\ UNCHANGED prog
  ELSE IF ~initialized
  THEN Return("GPTLstart_handle", th, name, ERR) /\ UNCHANGED prog
  ELSE
    LET g == get_thread_num(th)
    IN /\ threadid' = g.threadid
       /\ nthreads' = g.nthreads
       /\ UNCHANGED <<config, t_mutex, now, cputime>>
       /\ IF g.retval < 0
          THEN Return("GPTLstart_handle", th, name, ERR) /\ UNCHANGED <<world, handle>>
          ELSE LET r == GPTLstart_handle_t(World, g.retval, name, HandleOf(name))
               IN /\ SetWorld(r.w)
                  /\ handle' = IF r.h = NULL THEN handle
                                ELSE [n \in (DOMAIN handle) \cup {name} |->
                                        IF n = name THEN r.h ELSE handle[n]]
                  /\ Return("GPTLstart_handle", th, name, r.rc)

GPTLstop_handle(th, name) ==
  IF disabled
  THEN Return("GPTLstop_handle", th, name, 0) /\ UNCHANGED prog
  ELSE IF ~initialized
  THEN Return("GPTLstop_handle", th, name, ERR) /\ UNCHANGED prog
  ELSE
    LET tp1 == IF wallstats THEN now ELSE 0
        g == get_thread_num(th)
    IN /\ threadid' = g.threadid
       /\ nthreads' = g.nthreads
       /\ UNCHANGED <<config, t_mutex, now, cputime, handle>>
       /\ IF g.retval < 0
          THEN Return("GPTLstop_handle", th, name, ERR) /\ UNCHANGED world
          ELSE LET r == GPTLstop_handle_t(World, g.retval, HandleOf(name), tp1)
               IN SetWorld(r.w) /\ Return("GPTLstop_handle", th, name, r.rc)

\* GPTLstart_instr without the test of disabled
GPTLstart_instr_nodisable(th, self) ==
  IF ~initialized
  THEN Return("GPTLstart_instr", th, <<self>>, ERR) /\ UNCHANGED prog
  ELSE
    LET g == get_thread_num(th)
    IN /\ threadid' = g.threadid
       /\ nthreads' = g.nthreads
       /\ UNCHANGED <<config, t_mutex, now, cputime, handle>>
       /\ IF g.retval < 0
          THEN Return("GPTLstart_instr", th, <<self>>, ERR) /\ UNCHANGED world
          ELSE LET r == GPTLstart_instr_t(World, g.retval, self)
               IN SetWorld(r.w) /\ Return("GPTLstart_instr", th, <<self>>, r.rc)

GPTLstart_instr(th, self) ==
  IF disabled
  THEN Return("GPTLstart_instr", th, <<self>>, 0) /\ UNCHANGED prog
  ELSE IF ~initialized
  THEN Return("GPTLstart_instr", th, <<self>>, ERR) /\ UNCHANGED prog
  ELSE
    LET g == get_thread_num(th)
    IN /\ threadid' = g.threadid
       /\ nthreads' = g.nthreads
       /\ UNCHANGED <<config, t_mutex, now, cputime, handle>>
       /\ IF g.retval < 0
          THEN Return("GPTLstart_instr", th, <<self>>, ERR) /\ UNCHANGED world
          ELSE LET r == GPTLstart_instr_t(World, g.retval, self)
               IN SetWorld(r.w) /\ Return("GPTLstart_instr", th, <<self>>, r.rc)

GPTLstop_instr(th, self) ==
  IF disabled
  THEN Return("GPTLstop_instr", th, <<self>>, 0) /\ UNCHANGED prog
  ELSE IF ~initialized
  THEN Return("GPTLstop_instr", th, <<self>>, ERR) /\ UNCHANGED prog
  ELSE
    LET tp1 == IF wallstats THEN now ELSE 0
        g == get_thread_num(th)
    IN /\ threadid' = g.threadid
       /\ nthreads' = g.nthreads
       /\ UNCHANGED <<config, t_mutex, now, cputime, handle>>
       /\ IF g.retval < 0
          THEN Return("GPTLstop_instr", th, <<self>>, ERR) /\ UNCHANGED world
          ELSE LET r == GPTLstop_instr_t(World, g.retval, self, tp1)
               IN SetWorld(r.w) /\ Return("GPTLstop_instr", th, <<self>>, r.rc)

GPTLreset_nocpu ==
  /\ UNCHANGED <<config, nthreads, threadid, t_mutex, hashtable, callstack,
                 stackidx, max_name_len, now, cputime, handle>>
  /\ IF ~initialized
     THEN Return("GPTLreset", NOTHREAD, <<>>, ERR) /\ UNCHANGED timers
     ELSE /\ timers' = [t \in Slots |->
                          IF t < nthreads
                          THEN [i \in 1..Len(timers[t]) |->
                                  [timers[t][i] EXCEPT
                                     !.onflg = FALSE, !.count = 0,
                                     !.wall = [last |-> 0, accum |-> 0,
                                               max |-> 0, min |-> 0]]]
                          ELSE timers[t]]
          /\ Return("GPTLreset", NOTHREAD, <<>>, 0)

GPTLreset ==
  /\ UNCHANGED <<config, nthreads, threadid, t_mutex, hashtable, callstack,
                 stackidx, max_name_len, now, cputime, handle>>
  /\ IF ~initialized
     THEN Return("GPTLreset", NOTHREAD, <<>>, ERR) /\ UNCHANGED timers
     ELSE /\ timers' = [t \in Slots |->
                          IF t < nthreads
                          THEN [i \in 1..Len(timers[t]) |->
                                  [timers[t][i] EXCEPT
                                     !.onflg = FALSE, !.count = 0,
                                     !.wall = [last |-> 0, accum |-> 0,
                                               max |-> 0, min |-> 0],
                                     !.cpu = [last_utime |-> 0, last_stime |-> 0,
                                              accum_utime |-> 0, accum_stime |-> 0]]]
                          ELSE timers[t]]
          /\ Return("GPTLreset", NOTHREAD, <<>>, 0)

(***************************************************************************)
(* Call-tree construction (GPTLpr_file): the children arrays are built     *)
(* from the parent arrays recorded by update_parent_info                   *)
(***************************************************************************)
\* is node2 in the descendant list of node1?
RECURSIVE is_descendant(_, _, _)
is_descendant(w, node1, node2) ==
  LET ch == Deref(w, node1).children
  IN \/ \E n \in 1..Len(ch) : ch[n] = node2
     \/ \E n \in 1..Len(ch) : is_descendant(w, ch[n], node2)

\* newchild without the search of the child's descendants
newchild_noloopcheck(w, parent, child) ==
  IF parent = child THEN [w |-> w, rc |-> ERR]
  ELSE [w |-> [w EXCEPT !.timers[parent[1]][parent[2]].children = Append(@, child)],
        rc |-> 0]

newchild(w, parent, child) ==
  IF parent = child THEN [w |-> w, rc |-> ERR]
  ELSE IF is_descendant(w, child, parent) THEN [w |-> w, rc |-> ERR]
  ELSE [w |-> [w EXCEPT !.timers[parent[1]][parent[2]].children = Append(@, child)],
        rc |-> 0]

\* ProposedParents taking, under most_frequent, the latest of the parents
\* with the largest count (the test >= in place of >)
ProposedParents_lasttie(tm, meth) ==
  LET nparent == Len(tm.parent)
  IN CASE meth = "GPTLfirst_parent" ->
            IF nparent > 0 THEN <<tm.parent[1]>> ELSE <<>>
       [] meth = "GPTLlast_parent" ->
            IF nparent > 0 THEN <<tm.parent[nparent]>> ELSE <<>>
       [] meth = "GPTLmost_frequent" ->
            LET best == {n \in 1..nparent :
                           /\ tm.parent_count[n] > 0
                           /\ \A m \in 1..nparent :
                                /\ tm.parent_count[m] <= tm.parent_count[n]
                                /\ (m > n => tm.parent_count[m] < tm.parent_count[n])}
            IN IF best # {} THEN <<tm.parent[Least(best)]>> ELSE <<>>
       [] meth = "GPTLfull_tree" -> tm.parent
       [] OTHER -> <<>>

\* the parents construct_tree proposes for timer tm under method meth, in
\* the order of its newchild calls
ProposedParents(tm, meth) ==
  LET nparent == Len(tm.parent)
  IN CASE meth = "GPTLfirst_parent" ->
            IF nparent > 0 THEN <<tm.parent[1]>> ELSE <<>>
       [] meth = "GPTLlast_parent" ->
            IF nparent > 0 THEN <<tm.parent[nparent]>> ELSE <<>>
       [] meth = "GPTLmost_frequent" ->
            \* the first parent with the largest count (the test is >)
            LET best == {n \in 1..nparent :
                           /\ tm.parent_count[n] > 0
                           /\ \A m \in 1..nparent :
                                /\ tm.parent_count[m] <= tm.parent_count[n]
                                /\ (m < n => tm.parent_count[m] < tm.parent_count[n])}
            IN IF best # {} THEN <<tm.parent[Least(best)]>> ELSE <<>>
       [] meth = "GPTLfull_tree" -> tm.parent
       [] OTHER -> <<>>

\* the <<parent, child>> pairs of the newchild calls of construct_tree on
\* the list of thread t, from its i-th timer on
RECURSIVE ProposedEdges(_, _, _, _)
ProposedEdges(w, t, meth, i) ==
  IF i > Len(w.timers[t]) THEN <<>>
  ELSE LET pp == ProposedParents(w.timers[t][i], meth)
       IN [n \in 1..Len(pp) |-> <<pp[n], <<t, i>>>>] \o ProposedEdges(w, t, meth, i + 1)

\* the structures after the first k newchild calls
RECURSIVE TreeAfter(_, _, _)
TreeAfter(w, edges, k) ==
  IF k = 0 THEN w
  ELSE newchild(TreeAfter(w, edges, k - 1), edges[k][1], edges[k][2]).w

construct_tree(w, t, meth) ==
  IF meth \notin Methods THEN [w |-> w, rc |-> ERR]
  ELSE LET edges == ProposedEdges(w, t, meth, 1)
       IN [w |-> TreeAfter(w, edges, Len(edges)), rc |-> 0]

\* the loop over the threads of GPTLpr_file, from thread t on
RECURSIVE pr_threads(_, _)
pr_threads(w, t) ==
  IF t >= nthreads THEN w ELSE pr_threads(construct_tree(w, t, method).w, t + 1)

\* GPTLpr_file: the trees are constructed, then printed
GPTLpr_file ==
  /\ UNCHANGED <<config, nthreads, threadid, t_mutex, hashtable, callstack,
                 stackidx, max_name_len, now, cputime, handle>>
  /\ IF ~initialized
     THEN Return("GPTLpr_file", NOTHREAD, <<>>, ERR) /\ UNCHANGED timers
     ELSE /\ timers' = pr_threads(World, 0).timers
          /\ Return("GPTLpr_file", NOTHREAD, <<>>, 0)

(***************************************************************************)
(* GPTLpr_file, the section "Same stats sorted by timer for threaded       *)
(* regions".  A printed row is the label of its first column and the       *)
(* statistics printstats prints of the Timer it is given.                  *)
(***************************************************************************)
\* whether to print sorted thread stats (the default)
dopr_threadsort == TRUE

MAX(X, Y) == IF X > Y THEN X ELSE Y

\* "%3.3d " of a thread index
ThdLabel(t) == <<"000", "001", "002", "003">>[t + 1]

\* add without the update of wall.min
add_nomin(tout, tin) ==
  [tout EXCEPT
     !.count = @ + tin.count,
     !.wall.accum = IF wallstats THEN @ + tin.wall.accum ELSE @,
     !.wall.max = IF wallstats THEN MAX(@, tin.wall.max) ELSE @,
     !.cpu.accum_utime = IF cpustats THEN @ + tin.cpu.accum_utime ELSE @,
     !.cpu.accum_stime = IF cpustats THEN @ + tin.cpu.accum_stime ELSE @]

\* add the contents of tin to tout
add(tout, tin) ==
  [tout EXCEPT
     !.count = @ + tin.count,
     !.wall.accum = IF wallstats THEN @ + tin.wall.accum ELSE @,
     !.wall.max = IF wallstats THEN MAX(@, tin.wall.max) ELSE @,
     !.wall.min = IF wallstats THEN MIN(@, tin.wall.min) ELSE @,
     !.cpu.accum_utime = IF cpustats THEN @ + tin.cpu.accum_utime ELSE @,
     !.cpu.accum_stime = IF cpustats THEN @ + tin.cpu.accum_stime ELSE @]

printstats(label, timer) ==
  [label |-> label, name |-> timer.name, count |-> timer.count,
   nrecurse |-> timer.nrecurse,
   cpu |-> IF cpustats THEN <<timer.cpu.accum_utime, timer.cpu.accum_stime>> ELSE <<>>,
   wall |-> IF wallstats THEN <<timer.wall.accum, timer.wall.max, timer.wall.min>>
            ELSE <<>>]

\* the loop over the threads t >= 1 for the thread-0 timer ptr, from thread t
\* on; st holds the rows printed so far, sumstats, first and foundany
RECURSIVE sort_threads(_, _, _, _)
sort_threads(tms, ptr, t, st) ==
  IF t >= nthreads THEN st
  ELSE LET hits == {k \in 2..Len(tms[t]) : STRMATCH(ptr.name, tms[t][k].name)}
       IN IF hits = {} THEN sort_threads(tms, ptr, t + 1, st)
          ELSE LET tptr == tms[t][Least(hits)]
               IN sort_threads(tms, ptr, t + 1,
                    [rows |-> st.rows
                                \o (IF st.first THEN <<printstats(ThdLabel(0), ptr)>>
                                    ELSE <<>>)
                                \o <<printstats(ThdLabel(t), tptr)>>,
                     sumstats |-> add(st.sumstats, tptr),
                     first |-> FALSE,
                     foundany |-> TRUE])

\* the loop over the timers of thread 0, from the i-th on
RECURSIVE sort_regions(_, _)
sort_regions(tms, i) ==
  IF i > Len(tms[0]) THEN <<>>
  ELSE LET ptr == tms[0][i]
           st == sort_threads(tms, ptr, 1,
                              [rows |-> <<>>, sumstats |-> ptr, first |-> TRUE,
                               foundany |-> FALSE])
       IN st.rows
            \o (IF st.foundany THEN <<printstats("SUM", st.sumstats)>> ELSE <<>>)
            \o sort_regions(tms, i + 1)

threadsort(tms) ==
  IF dopr_threadsort /\ nthreads > 1 THEN sort_regions(tms, 2) ELSE <<>>

(***************************************************************************)
(* get_threadstats: gather stats for timer name over all threads; the      *)
(* Global is zeroed, then updated by every thread from t on that has an    *)
(* entry for name                                                          *)
(***************************************************************************)
RECURSIVE gts_threads(_, _, _, _, _)
gts_threads(w, iam, name, t, global) ==
  IF ~(t < nthreads) THEN global
  ELSE LET ptr == getentry(w, t, name).ptr
       IN IF ptr = NULL THEN gts_threads(w, iam, name, t + 1, global)
          ELSE LET tm == Deref(w, ptr)
                   g1 == [global EXCEPT !.totcalls = @ + tm.count]
                   g2 == IF tm.wall.accum > g1.wallmax
                         THEN [g1 EXCEPT !.wallmax = tm.wall.accum,
                                         !.wallmax_p = iam, !.wallmax_t = t]
                         ELSE g1
                   g3 == IF tm.wall.accum < g2.wallmin \/ g2.wallmin = 0
                         THEN [g2 EXCEPT !.wallmin = tm.wall.accum,
                                         !.wallmin_p = iam, !.wallmin_t = t]
                         ELSE g2
               IN gts_threads(w, iam, name, t + 1, g3)

get_threadstats(w, iam, name) ==
  gts_threads(w, iam, name, 0,
              [name |-> name, totcalls |-> 0, wallmax |-> 0, wallmax_p |-> 0,
               wallmax_t |-> 0, wallmin |-> 0, wallmin_p |-> 0, wallmin_t |-> 0])

\* GPTLpr_summary (built without MPI): the Global of every region of
\* thread 0, in list order
GPTLpr_summary(w) ==
  [i \in 1..(Len(w.timers[0]) - 1) |-> get_threadstats(w, 0, w.timers[0][i + 1].name)]

(***************************************************************************)
(* Queries: the number of regions of thread t and the name of its          *)
(* region-th region (0-based), for t >= 0, on the timers tms               *)
(***************************************************************************)
GPTLget_nregions(tms, t) ==
  IF ~initialized THEN [rc |-> ERR, nregions |-> 0]
  ELSE IF t >= maxthreads THEN [rc |-> ERR, nregions |-> 0]
  ELSE [rc |-> 0, nregions |-> Len(tms[t]) - 1]

GPTLget_regionname(tms, t, region, nc) ==
  IF ~initialized THEN [rc |-> ERR, name |-> <<>>]
  ELSE IF t >= maxthreads THEN [rc |-> ERR, name |-> <<>>]
  ELSE IF region + 2 > Len(tms[t]) THEN [rc |-> ERR, name |-> <<>>]
  ELSE LET nm == tms[t][region + 2].name
       IN [rc |-> 0, name |-> SubSeq(nm, 1, MIN(nc, Len(nm)))]

\* the underlying timing routine: the clock advances
Tick ==
  /\ now < MaxClock
  /\ now' = now + 1
  /\ UNCHANGED <<config, nthreads, threadid, t_mutex, world, cputime, handle, ctl, hist>>

\* times(): the process uses user or system time
TickCpu ==
  /\ cputime.usr + cputime.sys < MaxCpu
  /\ \/ cputime' = [cputime EXCEPT !.usr = @ + 1]
     \/ cputime' = [cputime EXCEPT !.sys = @ + 1]
  /\ UNCHANGED <<config, nthreads, threadid, t_mutex, world, now, handle, ctl, hist>>

NoObs == [nprs |-> 0, nops |-> 0, open |-> [th \in Threads |-> <<>>],
          deltas |-> [th \in Threads |-> <<>>], lvl |-> [th \in Threads |-> <<>>],
          utr |-> "none", val |-> 0, out |-> <<>>,
          first |-> [th \in Threads |-> <<>>]]

(***************************************************************************)
(* Initial state: the static initializers of gptl.c (THREADED_PTHREADS)    *)
(***************************************************************************)
Init ==
  /\ initialized = FALSE
  /\ disabled = FALSE
  /\ depthlimit = DEFAULT_DEPTHLIMIT
  /\ tablesize = DEFAULT_TABLE_SIZE
  /\ maxthreads = MAX_THREADS
  /\ nthreads = -1
  /\ wallstats = TRUE
  /\ threadid = <<>>
  /\ t_mutex = NOTHREAD
  /\ timers = <<>>
  /\ hashtable = <<>>
  /\ callstack = <<>>
  /\ stackidx = <<>>
  /\ max_name_len = <<>>
  /\ now = 0
  /\ cpustats = FALSE
  /\ overheadstats = TRUE
  /\ method = "GPTLfull_tree"
  /\ funcidx = 0
  /\ cputime = [usr |-> 0, sys |-> 0]
  /\ handle = <<>>
  /\ pc = [th \in Threads |-> "idle"]
  /\ loc = [th \in Threads |-> [t |-> 0, foundit |-> FALSE, retval |-> -1]]
  /\ ret = [op |-> "none", th |-> NOTHREAD, name |-> <<>>, rc |-> 0]
  /\ nest = [th \in Threads |-> <<>>]
  /\ bal = [th \in Threads |-> TRUE]
  /\ proper = [th \in Threads |-> TRUE]
  /\ pairs = [th \in Threads |-> <<>>]
  /\ ncalls = 0
  /\ nresets = 0
  /\ solo = [th \in Threads |-> SoloWorld]
  /\ got = [th \in Threads |-> <<>>]
  /\ scen = [phase |-> "pre", k |-> 0, j |-> 0, ok |-> TRUE, d0 |-> 0, c0 |-> 0,
             n0 |-> 0, a0 |-> 0, tfirst |-> 0, tlast |-> 0]
  /\ obs = NoObs

(***************************************************************************)
(* History of the calls issued by a thread                                 *)
(***************************************************************************)
Occ(s, x) == {i \in 1..Len(s) : s[i] = x}

RemoveAt(s, i) == SubSeq(s, 1, i - 1) \o SubSeq(s, i + 1, Len(s))

\* pairs[th][name], 0 for a name with no pair yet
Pairs(ps, name) == IF name \in DOMAIN ps THEN ps[name] ELSE 0

NoteStart(th, name) ==
  /\ nest' = [nest EXCEPT ![th] = Append(@, name)]
  /\ ncalls' = ncalls + 1
  /\ UNCHANGED <<bal, proper, pairs>>

NoteStop(th, name) ==
  /\ nest' = [nest EXCEPT ![th] = IF Occ(@, name) = {} THEN @
                                  ELSE RemoveAt(@, Greatest(Occ(@, name)))]
  /\ bal' = [bal EXCEPT ![th] = @ /\ Occ(nest[th], name) # {}]
  /\ proper' = [proper EXCEPT ![th] =
                  @ /\ nest[th] # <<>> /\ nest[th][Len(nest[th])] = name]
  /\ pairs' = [pairs EXCEPT ![th] =
                 IF Occ(nest[th], name) = {} THEN @
                 ELSE [n \in (DOMAIN @) \cup {name} |->
                         IF n = name THEN Pairs(@, name) + 1 ELSE @[n]]]
  /\ ncalls' = ncalls + 1

(***************************************************************************)
(* Spec: one thread; options, initialize, then starts and stops           *)
(***************************************************************************)
DepthVals == {1, 2}
TableVals == {1}

SetOption ==
  /\ ~initialized
  /\ \/ \E v \in DepthVals : GPTLsetoption("GPTLdepthlimit", v)
     \/ \E v \in TableVals : GPTLsetoption("GPTLtablesize", v)
     \/ GPTLsetoption("GPTLmaxthreads", 1)
  /\ UNCHANGED <<ctl, nest, bal, proper, pairs, ncalls, nresets, solo, got, scen, obs>>

Initialize ==
  /\ ~initialized
  /\ GPTLinitialize
  /\ UNCHANGED <<ctl, nest, bal, proper, pairs, ncalls, nresets, solo, got, scen, obs>>

StartCall(th, name) ==
  /\ initialized
  /\ GPTLstart(th, name)
  /\ NoteStart(th, name)
  /\ UNCHANGED <<ctl, nresets, got>>

StopCall(th, name) ==
  /\ initialized
  /\ GPTLstop(th, name)
  /\ NoteStop(th, name)
  /\ UNCHANGED <<ctl, nresets, got>>

Start(th, name) == StartCall(th, name) /\ UNCHANGED <<solo, scen, obs>>

Stop(th, name) == StopCall(th, name) /\ UNCHANGED <<solo, scen, obs>>

Reset ==
  /\ initialized
  /\ nresets < MaxResets
  /\ GPTLreset
  /\ nresets' = nresets + 1
  /\ UNCHANGED <<ctl, nest, bal, proper, pairs, ncalls, solo, got, scen, obs>>

\* one thread, names within MAX_CHARS, any order of starts and stops
StartAny == ncalls < MaxCalls /\ \E n \in Names : Start(Thr1, n)

StopAny == ncalls < MaxCalls /\ \E n \in Names : Stop(Thr1, n)

Next ==
  \/ SetOption
  \/ Initialize
  \/ StartAny
  \/ StopAny

Spec == Init /\ [][Next]_vars

\* the same with GPTLreset between the calls
StartR == ncalls < MaxResetCalls /\ \E n \in Names : Start(Thr1, n)

StopR == ncalls < MaxResetCalls /\ \E n \in Names : Stop(Thr1, n)

NextReset ==
  \/ SetOption
  \/ Initialize
  \/ StartR
  \/ StopR
  \/ Reset

SpecReset == Init /\ [][NextReset]_vars

\* one thread, names of exactly MAX_CHARS bytes and longer
TruncNames == {NameA, Xs} \cup LongNames

StartT == ncalls < MaxTruncCalls /\ \E n \in TruncNames : Start(Thr1, n)

StopT == ncalls < MaxTruncCalls /\ \E n \in TruncNames : Stop(Thr1, n)

NextTrunc ==
  \/ SetOption
  \/ Initialize
  \/ StartT
  \/ StopT

SpecTrunc == Init /\ [][NextTrunc]_vars

(***************************************************************************)
(* SpecEng: one thread; starts and stops with GPTLreset, GPTLenable and    *)
(* GPTLdisable between them                                                *)
(***************************************************************************)
Enable ==
  /\ GPTLenable
  /\ UNCHANGED <<ctl, nest, bal, proper, pairs, ncalls, nresets, solo, got, scen, obs>>

Disable ==
  /\ GPTLdisable
  /\ UNCHANGED <<ctl, nest, bal, proper, pairs, ncalls, nresets, solo, got, scen, obs>>

EngNames == {NameA, NameB}

StartE == ncalls < MaxEngCalls /\ \E n \in EngNames : Start(Thr1, n)

StopE == ncalls < MaxEngCalls /\ \E n \in EngNames : Stop(Thr1, n)

NextEng ==
  \/ SetOption
  \/ Initialize
  \/ StartE
  \/ StopE
  \/ Reset
  \/ Enable
  \/ Disable

SpecEng == Init /\ [][NextEng]_vars

(***************************************************************************)
(* SpecTree: construct_tree on recorded parent arrays drawn from a bounded *)
(* set: thread 0 has the regions A, B and C; A and B have up to two        *)
(* parents and C up to one, among the root, A, B and C (the region itself  *)
(* included), under each method                                            *)
(***************************************************************************)
TreeNodes == {<<0, i>> : i \in 1..4}

ParentCounts == {<<1, 1>>, <<1, 2>>}

\* the parent and parent_count arrays a region may have
ParentInfos ==
  {[parent |-> <<>>, parent_count |-> <<>>]}
  \cup {[parent |-> <<p>>, parent_count |-> <<1>>] : p \in TreeNodes}
  \cup {[parent |-> <<pq[1], pq[2]>>, parent_count |-> c] :
          pq \in {x \in TreeNodes \X TreeNodes : x[1] # x[2]}, c \in ParentCounts}

\* the structures of thread 0 after the first starts of A, B and C
TreeWorld ==
  LET w0 == SoloWorld
      w1 == update_ll_hash(w0, NewTimer(NameA), 0, getentry(w0, 0, NameA).indx)
      w2 == update_ll_hash(w1, NewTimer(NameB), 0, getentry(w1, 0, NameB).indx)
  IN update_ll_hash(w2, NewTimer(NameC), 0, getentry(w2, 0, NameC).indx)

InitTree ==
  /\ initialized = TRUE
  /\ disabled = FALSE
  /\ depthlimit = DEFAULT_DEPTHLIMIT
  /\ tablesize = DEFAULT_TABLE_SIZE
  /\ maxthreads = 1
  /\ nthreads = 1
  /\ wallstats = TRUE
  /\ cpustats = FALSE
  /\ overheadstats = TRUE
  /\ method \in Methods
  /\ funcidx = 0
  /\ threadid = [t \in {0} |-> Thr1]
  /\ t_mutex = NOTHREAD
  /\ hashtable = TreeWorld.hashtable
  /\ callstack = TreeWorld.callstack
  /\ stackidx = TreeWorld.stackidx
  /\ max_name_len = TreeWorld.max_name_len
  /\ \E pa \in ParentInfos, pb \in ParentInfos,
        pcc \in {x \in ParentInfos : Len(x.parent) <= 1} :
       timers = [t \in {0} |->
                   <<[NewTimer(ROOTNAME) EXCEPT !.onflg = TRUE],
                     [NewTimer(NameA) EXCEPT !.parent = pa.parent,
                                             !.parent_count = pa.parent_count],
                     [NewTimer(NameB) EXCEPT !.parent = pb.parent,
                                             !.parent_count = pb.parent_count],
                     [NewTimer(NameC) EXCEPT !.parent = pcc.parent,
                                             !.parent_count = pcc.parent_count]>>]
  /\ now = 0
  /\ cputime = [usr |-> 0, sys |-> 0]
  /\ handle = <<>>
  /\ pc = [th \in Threads |-> "idle"]
  /\ loc = [th \in Threads |-> [t |-> 0, foundit |-> FALSE, retval |-> -1]]
  /\ ret = [op |-> "none", th |-> NOTHREAD, name |-> <<>>, rc |-> 0]
  /\ nest = [th \in Threads |-> <<>>]
  /\ bal = [th \in Threads |-> TRUE]
  /\ proper = [th \in Threads |-> TRUE]
  /\ pairs = [th \in Threads |-> <<>>]
  /\ ncalls = 0
  /\ nresets = 0
  /\ solo = [th \in Threads |-> SoloWorld]
  /\ got = [th \in Threads |-> <<>>]
  /\ scen = [phase |-> "pre", k |-> 0, j |-> 0, ok |-> TRUE, d0 |-> 0, c0 |-> 0,
             n0 |-> 0, a0 |-> 0, tfirst |-> 0, tlast |-> 0]
  /\ obs = NoObs

PrFile ==
  /\ initialized
  /\ obs.nprs < MaxPr
  /\ GPTLpr_file
  /\ obs' = [obs EXCEPT !.nprs = @ + 1]
  /\ UNCHANGED <<ctl, nest, bal, proper, pairs, ncalls, nresets, solo, got, scen>>

NextTree == PrFile

SpecTree == InitTree /\ [][NextTree]_vars

(***************************************************************************)
(* SpecPr: one thread; starts and stops in any order, and GPTLpr_file      *)
(***************************************************************************)
SetOptionPr ==
  /\ ~initialized
  /\ \/ \E m \in Methods : GPTLsetoption("GPTLprint_method", m)
     \/ GPTLsetoption("GPTLmaxthreads", 1)
  /\ UNCHANGED <<ctl, nest, bal, proper, pairs, ncalls, nresets, solo, got, scen, obs>>

StartP == ncalls < MaxPrCalls /\ \E n \in Names : Start(Thr1, n)

StopP == ncalls < MaxPrCalls /\ \E n \in Names : Stop(Thr1, n)

NextPr ==
  \/ SetOptionPr
  \/ Initialize
  \/ StartP
  \/ StopP
  \/ PrFile

SpecPr == Init /\ [][NextPr]_vars

(***************************************************************************)
(* SpecRec: some calls, then k nested starts of one region followed by k   *)
(* stops of it, while the clock advances                                   *)
(***************************************************************************)
RName == NameA

PreNames == {NameA, NameB}

\* the regions of slot t stored under name, as a timer (a fresh one if none)
RegionOf(t, name) ==
  LET regs == {i \in 2..Len(timers[t]) : timers[t][i].name = name}
  IN IF regs = {} THEN NewTimer(name) ELSE timers[t][Least(regs)]

SetOptionRec ==
  /\ ~initialized
  /\ \/ \E v \in DepthVals : GPTLsetoption("GPTLdepthlimit", v)
     \/ GPTLsetoption("GPTLmaxthreads", 1)
  /\ UNCHANGED <<ctl, nest, bal, proper, pairs, ncalls, nresets, solo, got, scen, obs>>

PreStart ==
  /\ scen.phase = "pre" /\ ncalls < MaxPreCalls
  /\ \E n \in PreNames : Start(Thr1, n)

PreStop ==
  /\ scen.phase = "pre" /\ ncalls < MaxPreCalls
  /\ \E n \in PreNames : Stop(Thr1, n)

RecStart ==
  /\ initialized
  /\ scen.phase \in {"pre", "starts"} /\ scen.k < MaxRec
  /\ LET t == get_thread_num(Thr1).retval
     IN /\ t >= 0
        /\ stackidx[t] < depthlimit
        /\ scen.phase = "pre" => ~RegionOf(t, RName).onflg
        /\ StartCall(Thr1, RName)
        /\ scen' = IF scen.phase = "pre"
                   THEN [phase |-> "starts", k |-> 1, j |-> 0, ok |-> ret'.rc = 0,
                         d0 |-> stackidx[t],
                         c0 |-> RegionOf(t, RName).count,
                         n0 |-> RegionOf(t, RName).nrecurse,
                         a0 |-> RegionOf(t, RName).wall.accum,
                         tfirst |-> now, tlast |-> 0]
                   ELSE [scen EXCEPT !.k = @ + 1, !.ok = @ /\ ret'.rc = 0]
  /\ UNCHANGED <<solo, obs>>

RecStop ==
  /\ scen.phase \in {"starts", "stops"} /\ scen.j < scen.k
  /\ StopCall(Thr1, RName)
  /\ scen' = [scen EXCEPT !.j = @ + 1, !.ok = @ /\ ret'.rc = 0, !.tlast = now,
                          !.phase = IF scen.j + 1 = scen.k THEN "done" ELSE "stops"]
  /\ UNCHANGED <<solo, obs>>

NextRec ==
  \/ SetOptionRec
  \/ Initialize
  \/ PreStart
  \/ PreStop
  \/ RecStart
  \/ RecStop
  \/ Tick

SpecRec == Init /\ [][NextRec]_vars

(***************************************************************************)
(* SpecThr: two threads interleave their calls; solo[th] is what the calls *)
(* of th do to the structures of a thread that is alone                    *)
(***************************************************************************)
ThrSet == {Thr1, Thr2}

SetOptionThr ==
  /\ ~initialized
  /\ GPTLsetoption("GPTLmaxthreads", MaxThreads)
  /\ UNCHANGED <<ctl, nest, bal, proper, pairs, ncalls, nresets, solo, got, scen, obs>>

StartThr ==
  /\ ncalls < MaxThrCalls
  /\ \E th \in ThrSet, n \in PreNames :
       /\ StartCall(th, n)
       /\ solo' = [solo EXCEPT ![th] = GPTLstart_t(@, 0, n).w]
       /\ UNCHANGED <<scen, obs>>

StopThr ==
  /\ ncalls < MaxThrCalls
  /\ \E th \in ThrSet, n \in PreNames :
       /\ StopCall(th, n)
       /\ solo' = [solo EXCEPT ![th] =
                     GPTLstop_t(@, 0, n, IF wallstats THEN now ELSE 0).w]
       /\ UNCHANGED <<scen, obs>>

NextThr ==
  \/ SetOptionThr
  \/ Initialize
  \/ StartThr
  \/ StopThr

SpecThr == Init /\ [][NextThr]_vars

(***************************************************************************)
(* SpecStat: two threads time regions with wallclock and CPU statistics    *)
(* while the clocks advance; a run ends with a GPTLreset                   *)
(***************************************************************************)
SetOptionStat ==
  /\ ~initialized
  /\ \/ GPTLsetoption("GPTLmaxthreads", MaxThreads)
     \/ GPTLsetoption("GPTLcpu", 1)
  /\ UNCHANGED <<ctl, nest, bal, proper, pairs, ncalls, nresets, solo, got, scen, obs>>

\* thread 1 times A and B, thread 2 times A
StatCalls == {<<Thr1, NameA>>, <<Thr1, NameB>>, <<Thr2, NameA>>}

StartS ==
  /\ ncalls < MaxStatCalls /\ nresets = 0
  /\ \E c \in StatCalls : Start(c[1], c[2])

StopS ==
  /\ ncalls < MaxStatCalls /\ nresets = 0
  /\ \E c \in StatCalls : Stop(c[1], c[2])

\* some region other than the root is on: only then is the time that passes
\* part of a delta
Timing ==
  \E t \in DOMAIN timers : \E i \in 2..Len(timers[t]) : timers[t][i].onflg

TickS == Timing /\ nresets = 0 /\ Tick

TickCpuS == Timing /\ nresets = 0 /\ cpustats /\ TickCpu

ResetS == nresets = 0 /\ Reset

NextStat ==
  \/ SetOptionStat
  \/ Initialize
  \/ StartS
  \/ StopS
  \/ ResetS
  \/ TickS
  \/ TickCpuS

SpecStat == Init /\ [][NextStat]_vars

(***************************************************************************)
(* SpecHandle: one thread times regions through GPTLstart_handle and       *)
(* GPTLstop_handle, with one handle variable per name, 0 at first;         *)
(* solo[th] is what the same calls made with GPTLstart and GPTLstop do     *)
(***************************************************************************)
StartH ==
  /\ initialized
  /\ ncalls < MaxHandleCalls
  /\ \E n \in Names :
       /\ GPTLstart_handle(Thr1, n)
       /\ NoteStart(Thr1, n)
       /\ solo' = [solo EXCEPT ![Thr1] = GPTLstart_t(@, 0, n).w]
       /\ UNCHANGED <<ctl, nresets, got, scen, obs>>

StopH ==
  /\ initialized
  /\ ncalls < MaxHandleCalls
  /\ \E n \in Names :
       /\ GPTLstop_handle(Thr1, n)
       /\ NoteStop(Thr1, n)
       /\ solo' = [solo EXCEPT ![Thr1] =
                     GPTLstop_t(@, 0, n, IF wallstats THEN now ELSE 0).w]
       /\ UNCHANGED <<ctl, nresets, got, scen, obs>>

NextHandle ==
  \/ SetOption
  \/ Initialize
  \/ StartH
  \/ StopH

SpecHandle == Init /\ [][NextHandle]_vars

(***************************************************************************)
(* SpecWall: one thread times regions while the wallclock advances, with   *)
(* GPTLreset between the calls.  obs.deltas keeps the wallclock delta of   *)
(* every outermost start/stop pair whose two calls succeeded since         *)
(* GPTLinitialize or the last GPTLreset.                                   *)
(***************************************************************************)
SetOptionWall ==
  /\ ~initialized
  /\ GPTLsetoption("GPTLmaxthreads", 1)
  /\ UNCHANGED <<ctl, nest, bal, proper, pairs, ncalls, nresets, solo, got, scen, obs>>

\* obs.open[th][name] or obs.deltas[th][name], dflt where there is none
ObsAt(f, name, dflt) == IF name \in DOMAIN f THEN f[name] ELSE dflt

ObsPut(f, name, v) == [n \in (DOMAIN f) \cup {name} |-> IF n = name THEN v ELSE f[n]]

StartW ==
  /\ ncalls < MaxWallCalls
  /\ \E n \in PreNames :
       /\ StartCall(Thr1, n)
       /\ obs' = IF ret'.rc = 0 /\ Occ(nest[Thr1], n) = {}
                 THEN [obs EXCEPT !.open[Thr1] = ObsPut(@, n, now)]
                 ELSE obs
       /\ UNCHANGED <<solo, scen>>

StopW ==
  /\ ncalls < MaxWallCalls
  /\ \E n \in PreNames :
       /\ StopCall(Thr1, n)
       /\ obs' = IF ret'.rc = 0 /\ Cardinality(Occ(nest[Thr1], n)) = 1
                 THEN [obs EXCEPT !.deltas[Thr1] =
                         ObsPut(@, n, Append(ObsAt(@, n, <<>>),
                                             now - ObsAt(obs.open[Thr1], n, 0)))]
                 ELSE obs
       /\ UNCHANGED <<solo, scen>>

\* GPTLreset turns every region off: no start remains open, no pair counts
ResetW ==
  /\ initialized
  /\ nresets < MaxResets
  /\ GPTLreset
  /\ nresets' = nresets + 1
  /\ nest' = [th \in Threads |-> <<>>]
  /\ obs' = [obs EXCEPT !.open = [th \in Threads |-> <<>>],
                        !.deltas = [th \in Threads |-> <<>>]]
  /\ UNCHANGED <<ctl, bal, proper, pairs, ncalls, solo, got, scen>>

TickW == initialized /\ Tick

NextWall ==
  \/ SetOptionWall
  \/ Initialize
  \/ StartW
  \/ StopW
  \/ ResetW
  \/ TickW

SpecWall == Init /\ [][NextWall]_vars

(***************************************************************************)
(* SpecLife: the lifecycle.  Options and time source are set, the library  *)
(* is initialized and finalized, enabled and disabled, in any order, and   *)
(* timing calls of every variant are made in every state.                  *)
(***************************************************************************)
\* option calls made before GPTLinitialize
LifeOptions == {<<"GPTLwall", 0>>, <<"GPTLdepthlimit", 1>>, <<"GPTLmaxthreads", 1>>,
                <<"GPTLprint_method", "GPTLfirst_parent">>, <<"GPTLtablesize", 0>>}

\* option calls made after it
LateOptions == LifeOptions \cup
               {<<"GPTLwall", 1>>, <<"GPTLcpu", 1>>, <<"GPTLoverhead", 0>>,
                <<"GPTLdepthlimit", 2>>, <<"GPTLmaxthreads", 2>>,
                <<"GPTLprint_method", "GPTLlast_parent">>, <<"GPTLtablesize", 1>>}

LifeSources == {"GPTLplacebo", "GPTLnanotime"}

LifeOp == obs.nops < MaxLifeOps /\ obs' = [obs EXCEPT !.nops = @ + 1]

LifeFrame == UNCHANGED <<ctl, nest, bal, proper, pairs, ncalls, nresets, solo, got, scen>>

SetOptionL ==
  /\ LifeOp
  /\ \E o \in (IF initialized THEN LateOptions ELSE LifeOptions) : GPTLsetoption(o[1], o[2])
  /\ LifeFrame

SetUtrL ==
  /\ obs.nops < MaxLifeOps
  /\ \E o \in LifeSources :
       /\ GPTLsetutr(o)
       /\ obs' = [obs EXCEPT !.nops = @ + 1, !.utr = o]
  /\ LifeFrame

InitializeL == LifeOp /\ GPTLinitialize /\ LifeFrame

FinalizeL == LifeOp /\ GPTLfinalize /\ LifeFrame

EnableL == LifeOp /\ GPTLenable /\ LifeFrame

DisableL == LifeOp /\ GPTLdisable /\ LifeFrame

\* the address of an instrumented function
LifeAddr == 4112

\* the caller passes a handle that is 0 or points to a Timer that exists: a
\* handle kept across GPTLfinalize points to freed memory and is not used
LiveHandle(name) ==
  IF HandleOf(name) = NULL THEN TRUE
  ELSE IF HandleOf(name)[1] \notin DOMAIN timers THEN FALSE
  ELSE HandleOf(name)[2] <= Len(timers[HandleOf(name)[1]])

TimingL ==
  /\ ncalls < MaxLifeCalls
  /\ \/ GPTLstart(Thr1, NameA)
     \/ GPTLstop(Thr1, NameA)
     \/ LiveHandle(NameA) /\ GPTLstart_handle(Thr1, NameA)
     \/ LiveHandle(NameA) /\ GPTLstop_handle(Thr1, NameA)
     \/ GPTLstart_instr(Thr1, LifeAddr)
     \/ GPTLstop_instr(Thr1, LifeAddr)
  /\ ncalls' = ncalls + 1
  /\ UNCHANGED <<ctl, nest, bal, proper, pairs, nresets, solo, got, scen, obs>>

NextLife ==
  \/ SetOptionL
  \/ SetUtrL
  \/ InitializeL
  \/ FinalizeL
  \/ EnableL
  \/ DisableL
  \/ TimingL

SpecLife == Init /\ [][NextLife]_vars

(***************************************************************************)
(* SpecDeep: one thread nests regions as deep as the call stack allows.    *)
(* Every start opens a region that is not open yet, so that without a      *)
(* depth limit the stack index rises by one with each of them up to        *)
(* MAX_STACK - 1; at the full stack the innermost region is also started   *)
(* again (a recursive start).  From any depth the regions are then stopped *)
(* innermost first.  The depth limit is left at its default or set before  *)
(* GPTLinitialize.                                                         *)
(***************************************************************************)
\* the depth limits set: below zero, zero, and a small one
DeepLimits == {-1, 0, 2}

\* the name of the i-th nested region: two capital letters
DeepName(i) == <<65 + (i \div 16), 65 + (i % 16)>>

SetOptionDeep ==
  /\ ~initialized
  /\ \/ /\ depthlimit = DEFAULT_DEPTHLIMIT
        /\ \E v \in DeepLimits : GPTLsetoption("GPTLdepthlimit", v)
     \/ /\ maxthreads = MAX_THREADS
        /\ GPTLsetoption("GPTLmaxthreads", 1)
  /\ UNCHANGED <<ctl, nest, bal, proper, pairs, ncalls, nresets, solo, got, scen, obs>>

InitializeDeep ==
  /\ maxthreads = 1
  /\ Initialize

\* a further region is opened; no start follows a stop
StartDeep ==
  /\ ncalls < MaxDeepCalls
  /\ ret.op # "GPTLstop"
  /\ Start(Thr1, DeepName(Len(nest[Thr1]) + 1))

\* the innermost open region is started again at the full stack
RestartDeep ==
  /\ ncalls < MaxDeepCalls
  /\ ret.op = "GPTLstart"
  /\ ret.rc = 0
  /\ initialized
  /\ stackidx[0] = MAX_STACK - 1
  /\ Start(Thr1, ret.name)

\* the innermost region not yet stopped is stopped
StopDeep ==
  /\ ncalls < MaxDeepCalls
  /\ nest[Thr1] # <<>>
  /\ Stop(Thr1, nest[Thr1][Len(nest[Thr1])])

\* a stop is the first timing call
StopUnopened ==
  /\ ncalls = 0
  /\ Stop(Thr1, DeepName(1))

NextDeep ==
  \/ SetOptionDeep
  \/ StopUnopened
  \/ InitializeDeep
  \/ StartDeep
  \/ RestartDeep
  \/ StopDeep

SpecDeep == Init /\ [][NextDeep]_vars

(***************************************************************************)
(* SpecOpen: one thread; starts and stops in any order, with GPTLreset,    *)
(* GPTLenable and GPTLdisable between them.  obs.lvl records which regions *)
(* the calls have opened: a start that succeeds while the library is       *)
(* enabled and the depth is below the depth limit opens its region, or     *)
(* nests once more in it if it is open; a stop that succeeds while enabled *)
(* at a depth not above the limit leaves one nesting of its region, or     *)
(* closes it.                                                              *)
(***************************************************************************)
ObsDel(f, name) == [n \in (DOMAIN f) \ {name} |-> f[n]]

StartO ==
  /\ ncalls < MaxOpenCalls
  /\ \E n \in EngNames :
       /\ StartCall(Thr1, n)
       /\ obs' = IF ~disabled /\ ret'.rc = 0 /\ stackidx[0] < depthlimit
                 THEN [obs EXCEPT !.lvl[Thr1] =
                         ObsPut(@, n, IF n \in DOMAIN @ THEN @[n] + 1 ELSE 0)]
                 ELSE obs
  /\ UNCHANGED <<solo, scen>>

StopO ==
  /\ ncalls < MaxOpenCalls
  /\ \E n \in EngNames :
       /\ StopCall(Thr1, n)
       /\ obs' = IF ~disabled /\ ret'.rc = 0 /\ stackidx[0] <= depthlimit
                    /\ n \in DOMAIN obs.lvl[Thr1]
                 THEN [obs EXCEPT !.lvl[Thr1] =
                         IF @[n] > 0 THEN ObsPut(@, n, @[n] - 1) ELSE ObsDel(@, n)]
                 ELSE obs
  /\ UNCHANGED <<solo, scen>>

NextOpen ==
  \/ SetOption
  \/ Initialize
  \/ StartO
  \/ StopO
  \/ Reset
  \/ Enable
  \/ Disable

SpecOpen == Init /\ [][NextOpen]_vars

(***************************************************************************)
(* SpecOpt: GPTLsetoption is called with values in and out of range,       *)
(* before and after GPTLinitialize.  obs.val is the value of the last      *)
(* call.                                                                   *)
(***************************************************************************)
\* a value of the int val that is none of the enumerators of Method
BadMethod == "(Method) 99"

OptCalls ==
  {<<"GPTLtablesize", v>> : v \in {-1, 0, 1, 2}}
    \cup {<<"GPTLmaxthreads", v>> : v \in {-1, 0, 1, 2}}
    \cup {<<"GPTLprint_method", v>> : v \in Methods \cup {BadMethod}}

SetOptionV ==
  /\ obs.nops < MaxOptOps
  /\ \E o \in OptCalls :
       /\ GPTLsetoption(o[1], o[2])
       /\ obs' = [obs EXCEPT !.nops = @ + 1, !.val = o[2]]
  /\ LifeFrame

InitializeV ==
  /\ obs.nops < MaxOptOps
  /\ GPTLinitialize
  /\ obs' = [obs EXCEPT !.nops = @ + 1]
  /\ LifeFrame

NextOpt ==
  \/ SetOptionV
  \/ InitializeV

SpecOpt == Init /\ [][NextOpt]_vars

(***************************************************************************)
(* SpecSort: two threads time regions (thread 1 times A and B, thread 2    *)
(* times A) while the clock advances, then GPTLpr_file prints.  obs.out is *)
(* the rows of the section sorted by timer.                                *)
(***************************************************************************)
StartQ ==
  /\ ncalls < MaxSortCalls /\ obs.nprs = 0
  /\ \E c \in StatCalls : Start(c[1], c[2])

StopQ ==
  /\ ncalls < MaxSortCalls /\ obs.nprs = 0
  /\ \E c \in StatCalls : Stop(c[1], c[2])

TickQ == Timing /\ obs.nprs = 0 /\ Tick

PrFileQ ==
  /\ initialized
  /\ obs.nprs < MaxPr
  /\ GPTLpr_file
  /\ obs' = [obs EXCEPT !.nprs = @ + 1, !.out = threadsort(timers)]
  /\ UNCHANGED <<ctl, nest, bal, proper, pairs, ncalls, nresets, solo, got, scen>>

NextSort ==
  \/ SetOptionThr
  \/ Initialize
  \/ StartQ
  \/ StopQ
  \/ TickQ
  \/ PrFileQ

SpecSort == Init /\ [][NextSort]_vars

(***************************************************************************)
(* SpecHash: two threads create regions by name, through a handle and by   *)
(* the address of an instrumented function, in hash tables of one or two   *)
(* buckets; obs.first[th] is, for each region thread th has started with   *)
(* success, its name and address, in the order of their first starts.      *)
(* The depth limit is at its default, so no start is suppressed.           *)
(***************************************************************************)
HashSizes == {1, 2}

\* "A" and "C" share a bucket of a table of size 2
HashNames == {NameA, NameC}

HashAddrs == {LifeAddr, LifeAddr + 16}

SetOptionHash ==
  /\ ~initialized
  /\ \/ \E v \in HashSizes : GPTLsetoption("GPTLtablesize", v)
     \/ GPTLsetoption("GPTLmaxthreads", MaxThreads)
  /\ UNCHANGED <<ctl, nest, bal, proper, pairs, ncalls, nresets, solo, got, scen, obs>>

NoteFirst(th, key) ==
  obs' = IF ~disabled /\ ret'.rc = 0
            /\ \A n \in 1..Len(obs.first[th]) : obs.first[th][n] # key
         THEN [obs EXCEPT !.first[th] = Append(@, key)]
         ELSE obs

HashFrame == UNCHANGED <<ctl, nest, bal, proper, pairs, nresets, solo, got, scen>>

StartHash ==
  /\ initialized
  /\ ncalls < MaxHashCalls
  /\ ncalls' = ncalls + 1
  /\ \/ \E th \in ThrSet, n \in HashNames :
          GPTLstart(th, n) /\ NoteFirst(th, [name |-> n, address |-> 0])
     \/ GPTLstart_handle(Thr1, NameA)
          /\ NoteFirst(Thr1, [name |-> NameA, address |-> 0])
     \/ \E th \in ThrSet, a \in HashAddrs :
          GPTLstart_instr(th, a)
            /\ NoteFirst(th, [name |-> HexString(a), address |-> a])
  /\ HashFrame

StopHash ==
  /\ initialized
  /\ ncalls < MaxHashCalls
  /\ ncalls' = ncalls + 1
  /\ \/ \E th \in ThrSet, n \in HashNames : GPTLstop(th, n)
     \/ GPTLstop_handle(Thr1, NameA)
     \/ \E th \in ThrSet, a \in HashAddrs : GPTLstop_instr(th, a)
  /\ UNCHANGED obs
  /\ HashFrame

NextHash ==
  \/ SetOptionHash
  \/ Initialize
  \/ StartHash
  \/ StopHash
  \/ Reset

SpecHash == Init /\ [][NextHash]_vars

(***************************************************************************)
(* SpecSum: two threads time regions while the clock advances, then        *)
(* GPTLpr_summary gathers the statistics of the regions of thread 0 over   *)
(* the threads.  obs.out is the Globals it prints.                         *)
(***************************************************************************)
PrSummaryQ ==
  /\ initialized
  /\ obs.nprs < MaxPr
  /\ obs' = [obs EXCEPT !.nprs = @ + 1, !.out = GPTLpr_summary(World)]
  /\ Return("GPTLpr_summary", NOTHREAD, <<>>, 0)
  /\ UNCHANGED <<prog, ctl, nest, bal, proper, pairs, ncalls, nresets, solo, got, scen>>

NextSum ==
  \/ SetOptionThr
  \/ Initialize
  \/ StartQ
  \/ StopQ
  \/ TickQ
  \/ PrSummaryQ

SpecSum == Init /\ [][NextSum]_vars

(***************************************************************************)
(* SpecMix: one thread times regions by name and through handles, one      *)
(* handle variable per name, 0 at first, in any order.                     *)
(***************************************************************************)
MixFrame == UNCHANGED <<ctl, nest, bal, proper, pairs, nresets, solo, got, scen, obs>>

StartM ==
  /\ initialized
  /\ ncalls < MaxMixCalls
  /\ ncalls' = ncalls + 1
  /\ \E n \in EngNames : GPTLstart(Thr1, n) \/ GPTLstart_handle(Thr1, n)
  /\ MixFrame

StopM ==
  /\ initialized
  /\ ncalls < MaxMixCalls
  /\ ncalls' = ncalls + 1
  /\ \E n \in EngNames : GPTLstop(Thr1, n) \/ GPTLstop_handle(Thr1, n)
  /\ MixFrame

NextMix ==
  \/ SetOption
  \/ Initialize
  \/ StartM
  \/ StopM

SpecMix == Init /\ [][NextMix]_vars

(***************************************************************************)
(* SpecReport: GPTLpr_file is called again and again with no timing call   *)
(* in between, on the recorded parent arrays of SpecTree                   *)
(***************************************************************************)
PrFileAgain ==
  /\ initialized
  /\ obs.nprs < MaxReports
  /\ GPTLpr_file
  /\ obs' = [obs EXCEPT !.nprs = @ + 1]
  /\ UNCHANGED <<ctl, nest, bal, proper, pairs, ncalls, nresets, solo, got, scen>>

NextReport == PrFileAgain

SpecReport == InitTree /\ [][NextReport]_vars

(***************************************************************************)
(* SpecShare: two threads time region A through GPTLstart_handle and       *)
(* GPTLstop_handle with the same handle variable, 0 at first               *)
(***************************************************************************)
StartSh ==
  /\ initialized
  /\ ncalls < MaxShareCalls
  /\ ncalls' = ncalls + 1
  /\ \E th \in ThrSet : GPTLstart_handle(th, NameA)
  /\ MixFrame

StopSh ==
  /\ initialized
  /\ ncalls < MaxShareCalls
  /\ ncalls' = ncalls + 1
  /\ \E th \in ThrSet : GPTLstop_handle(th, NameA)
  /\ MixFrame

NextShare ==
  \/ SetOptionThr
  \/ Initialize
  \/ StartSh
  \/ StopSh

SpecShare == Init /\ [][NextShare]_vars

(***************************************************************************)
(* SpecReg: get_thread_num (THREADED_PTHREADS) statement by statement,     *)
(* called by several threads at once.  pc[th] is the position of th in the *)
(* function, loc[th] its local variables t, foundit and retval, got[th]    *)
(* the values returned to it so far.                                       *)
(***************************************************************************)
SetOptionReg ==
  /\ ~initialized
  /\ GPTLsetoption("GPTLmaxthreads", MaxThreads)
  /\ UNCHANGED <<ctl, nest, bal, proper, pairs, ncalls, nresets, solo, got, scen, obs>>

\* everything get_thread_num leaves alone
RegFrame == UNCHANGED <<config, world, now, cputime, handle, ret, nest, bal, proper, pairs, ncalls,
                        nresets, solo, scen, obs>>

\* lock_mutex with a mutex that does not exclude
lock_mutex_free(th) ==
  /\ pc[th] = "lock"
  /\ t_mutex' = th
  /\ pc' = [pc EXCEPT ![th] = "check"]
  /\ UNCHANGED <<nthreads, threadid, loc, got>>

lock_mutex(th) ==
  /\ pc[th] = "lock"
  /\ t_mutex = NOTHREAD
  /\ t_mutex' = th
  /\ pc' = [pc EXCEPT ![th] = "check"]
  /\ UNCHANGED <<nthreads, threadid, loc, got>>

unlock_mutex(th) ==
  /\ pc[th] = "unlock"
  /\ t_mutex' = NOTHREAD
  /\ pc' = [pc EXCEPT ![th] = "return"]
  /\ UNCHANGED <<nthreads, threadid, loc, got>>

\* entry: the locals are initialized, the search loop starts at t = 0
gtn_enter(th) ==
  /\ pc[th] = "idle"
  /\ Len(got[th]) < MaxGets
  /\ pc' = [pc EXCEPT ![th] = "loop"]
  /\ loc' = [loc EXCEPT ![th] = [t |-> 0, foundit |-> FALSE, retval |-> -1]]
  /\ UNCHANGED <<nthreads, threadid, t_mutex, got>>

\* one test of the loop condition and, inside the loop, one comparison.  The
\* loop runs outside the mutex: an entry another thread is writing is read
\* either as written or as the initial flag value
gtn_loop(th) ==
  /\ pc[th] = "loop"
  /\ IF loc[th].t < nthreads
     THEN \E v \in {threadid[loc[th].t]}
                     \cup (IF threadid[loc[th].t] = th THEN {} ELSE {NOTHREAD}) :
            /\ loc' = [loc EXCEPT ![th] =
                         [t |-> @.t + 1,
                          foundit |-> IF v = th THEN TRUE ELSE @.foundit,
                          retval |-> IF v = th THEN @.t ELSE @.retval]]
            /\ UNCHANGED pc
     ELSE /\ pc' = [pc EXCEPT ![th] = IF loc[th].foundit THEN "return" ELSE "lock"]
          /\ UNCHANGED loc
  /\ UNCHANGED <<nthreads, threadid, t_mutex, got>>

\* gtn_check without the unlock_mutex on the path of too many threads
gtn_check_nounlock(th) ==
  /\ pc[th] = "check"
  /\ IF nthreads >= maxthreads
     THEN /\ loc' = [loc EXCEPT ![th].retval = ERR]
          /\ pc' = [pc EXCEPT ![th] = "return"]
          /\ UNCHANGED t_mutex
     ELSE /\ pc' = [pc EXCEPT ![th] = "store"]
          /\ UNCHANGED <<t_mutex, loc>>
  /\ UNCHANGED <<nthreads, threadid, got>>

\* if (nthreads >= maxthreads) { unlock; return error }
gtn_check(th) ==
  /\ pc[th] = "check"
  /\ IF nthreads >= maxthreads
     THEN /\ t_mutex' = NOTHREAD
          /\ loc' = [loc EXCEPT ![th].retval = ERR]
          /\ pc' = [pc EXCEPT ![th] = "return"]
     ELSE /\ pc' = [pc EXCEPT ![th] = "store"]
          /\ UNCHANGED <<t_mutex, loc>>
  /\ UNCHANGED <<nthreads, threadid, got>>

\* threadid[nthreads] = mythreadid
gtn_store(th) ==
  /\ pc[th] = "store"
  /\ threadid' = [threadid EXCEPT ![nthreads] = th]
  /\ pc' = [pc EXCEPT ![th] = "incr"]
  /\ UNCHANGED <<nthreads, t_mutex, loc, got>>

\* retval = nthreads++
gtn_incr(th) ==
  /\ pc[th] = "incr"
  /\ loc' = [loc EXCEPT ![th].retval = nthreads]
  /\ nthreads' = nthreads + 1
  /\ pc' = [pc EXCEPT ![th] = "unlock"]
  /\ UNCHANGED <<threadid, t_mutex, got>>

gtn_return(th) ==
  /\ pc[th] = "return"
  /\ got' = [got EXCEPT ![th] = Append(@, loc[th].retval)]
  /\ pc' = [pc EXCEPT ![th] = "idle"]
  /\ UNCHANGED <<nthreads, threadid, t_mutex, loc>>

GetThreadNumStep ==
  /\ initialized
  /\ RegFrame
  /\ \E th \in Threads :
       \/ gtn_enter(th)
       \/ gtn_loop(th)
       \/ lock_mutex(th)
       \/ gtn_check(th)
       \/ gtn_store(th)
       \/ gtn_incr(th)
       \/ unlock_mutex(th)
       \/ gtn_return(th)

NextReg ==
  \/ SetOptionReg
  \/ Initialize
  \/ GetThreadNumStep

SpecReg == Init /\ [][NextReg]_vars

\* the steps of one thread, and the registry runs in which every thread
\* that can take a step eventually takes one
ThreadStep(th) ==
  /\ initialized
  /\ RegFrame
  /\ \/ gtn_enter(th)
     \/ gtn_loop(th)
     \/ lock_mutex(th)
     \/ gtn_check(th)
     \/ gtn_store(th)
     \/ gtn_incr(th)
     \/ unlock_mutex(th)
     \/ gtn_return(th)

SpecRegFair == SpecReg /\ \A th \in Threads : WF_vars(ThreadStep(th))


(***************************************************************************)
(* Notions used by the properties                                          *)
(***************************************************************************)
\* the regions of thread slot t (all timers but the sentinel root) stored
\* under the given name
NamedRegions(t, name) == {i \in 2..Len(timers[t]) : timers[t][i].name = name}

\* in a step: the step is a timing call (the call is ret'); its thread; the
\* slot get_thread_num gives that thread
TimingCall == ncalls' = ncalls + 1 /\ initialized /\ ~disabled

CallerSlot == get_thread_num(ret'.th).retval

(***************************************************************************)
(* C1 (as claimed): after a balanced sequence of start/stop calls of a     *)
(* thread (every start matched by a later stop of the same name), the      *)
(* thread's stack depth is 0 and every region but the root is off.         *)
(***************************************************************************)
C1_BalancedEndsAtRest ==
  \A th \in Threads :
    \A t \in DOMAIN timers :
      (initialized /\ ~disabled /\ nresets = 0 /\ threadid[t] = th
         /\ bal[th] /\ nest[th] = <<>>)
      => /\ stackidx[t] = 0
         /\ \A i \in 2..Len(timers[t]) : ~timers[t][i].onflg

(***************************************************************************)
(* C3: a stop issued at a depth not above depthlimit for a name with no    *)
(* region on this thread, or whose region is off, returns an error and     *)
(* changes nothing (no timer, no stack depth); every region that was on    *)
(* stays on, and a stop of a region that is on succeeds: its count goes up *)
(* by one and, outside recursion, it is turned off and the stack popped.   *)
(***************************************************************************)
C3_FailedStopIsInert ==
  [][ (TimingCall /\ ret'.op = "GPTLstop" /\ CallerSlot >= 0
         /\ stackidx[CallerSlot] <= depthlimit)
      => LET t == CallerSlot
             regs == NamedRegions(t, ret'.name)
         IN /\ (\A i \in regs : ~timers[t][i].onflg)
                 => (ret'.rc = ERR /\ world' = world)
            /\ \A i \in regs :
                 timers[t][i].onflg
                 => /\ ret'.rc = 0
                    /\ timers'[t][i].count = timers[t][i].count + 1
                    /\ timers[t][i].recurselvl = 0
                         => /\ ~timers'[t][i].onflg
                            /\ stackidx'[t] = stackidx[t] - 1
    ]_vars

\* a stop has just failed while a region is open
C3_Witness ==
  /\ ret.op = "GPTLstop" /\ ret.rc = ERR
  /\ \E t \in DOMAIN timers : \E i \in 2..Len(timers[t]) :
       /\ timers[t][i].onflg
       /\ timers[t][i].name # ret.name
       /\ stackidx[t] <= depthlimit

(***************************************************************************)
(* C4: a start at stack depth >= depthlimit only increments the depth, a   *)
(* stop at stack depth > depthlimit only decrements it: no timer, hash     *)
(* bucket or call-stack entry changes.  Hence only a start below           *)
(* depthlimit creates or times a region, and after a properly nested       *)
(* sequence in which everything is stopped the depth is 0 again.           *)
(***************************************************************************)
C4_DepthLimitSuppression ==
  [][ (TimingCall /\ CallerSlot >= 0)
      => LET t == CallerSlot
             th == ret'.th
         IN /\ (ret'.op = "GPTLstart" /\ stackidx[t] >= depthlimit)
                 => /\ ret'.rc = 0
                    /\ stackidx' = [stackidx EXCEPT ![t] = @ + 1]
                    /\ <<timers, hashtable, callstack, max_name_len>>'
                         = <<timers, hashtable, callstack, max_name_len>>
            /\ (ret'.op = "GPTLstop" /\ stackidx[t] > depthlimit)
                 => /\ ret'.rc = 0
                    /\ stackidx' = [stackidx EXCEPT ![t] = @ - 1]
                    /\ <<timers, hashtable, callstack, max_name_len>>'
                         = <<timers, hashtable, callstack, max_name_len>>
            /\ (proper'[th] /\ nest'[th] = <<>> /\ nresets = 0)
                 => /\ stackidx'[t] = 0
                    /\ \A i \in 2..Len(timers'[t]) : ~timers'[t][i].onflg
    ]_vars

\* depthlimit = 2; A, B, C were started nested and stopped: only A and B
\* exist and have a count, and the depth is 0
C4_Witness ==
  /\ initialized /\ depthlimit = 2
  /\ proper[Thr1] /\ nest[Thr1] = <<>> /\ ncalls = 6
  /\ Len(timers[0]) = 3
  /\ timers[0][2].name = NameA /\ timers[0][2].count = 1
  /\ timers[0][3].name = NameB /\ timers[0][3].count = 1
  /\ Pairs(pairs[Thr1], NameC) = 1
  /\ stackidx[0] = 0

(***************************************************************************)
(* C7: with the default depthlimit and a depth below MAX_STACK, every call *)
(* of a balanced sequence succeeds, properly nested or not, and when every *)
(* start has been matched each region's count is the number of its         *)
(* start/stop pairs.                                                       *)
(***************************************************************************)
RegionCount(tms, name) ==
  LET regs == {i \in 2..Len(tms) : tms[i].name = name}
  IN IF regs = {} THEN 0 ELSE tms[Least(regs)].count

C7_OverlappingRegions ==
  [][ (TimingCall /\ CallerSlot >= 0 /\ depthlimit = DEFAULT_DEPTHLIMIT
         /\ stackidx[CallerSlot] < MAX_STACK - 1
         /\ Len(ret'.name) <= MAX_CHARS /\ nresets = 0 /\ bal'[ret'.th])
      => LET t == CallerSlot
             th == ret'.th
         IN /\ ret'.rc = 0
            /\ nest'[th] = <<>>
                 => \A name \in Names :
                      RegionCount(timers'[t], name) = Pairs(pairs'[th], name)
    ]_vars

\* A and B overlapped (A was stopped while B, started after it, was open)
C7_Witness ==
  /\ initialized /\ depthlimit = DEFAULT_DEPTHLIMIT
  /\ bal[Thr1] /\ ~proper[Thr1] /\ nest[Thr1] = <<>>
  /\ ret.op = "GPTLstop" /\ ret.rc = 0
  /\ Pairs(pairs[Thr1], NameA) = 1 /\ Pairs(pairs[Thr1], NameB) = 1


(***************************************************************************)
(* C8 (as claimed): a name longer than MAX_CHARS behaves exactly like its  *)
(* first MAX_CHARS bytes: a call with the long name returns what the call  *)
(* with the truncated name returns and leaves the same timers, hash table  *)
(* and stack; so a stop of a long name whose truncation is a region that   *)
(* is on succeeds, and no two regions have the same stored name.           *)
(***************************************************************************)
Truncated(name) == SubSeq(name, 1, MIN(Len(name), MAX_CHARS))

C8_TruncatedNameIsTheSameRegion ==
  [][ (TimingCall /\ CallerSlot >= 0)
      => LET t == CallerSlot
             short == Truncated(ret'.name)
             r == IF ret'.op = "GPTLstart"
                  THEN GPTLstart_t(World, t, short)
                  ELSE GPTLstop_t(World, t, short, IF wallstats THEN now ELSE 0)
         IN /\ ret'.rc = r.rc
            /\ World' = r.w
    ]_vars

(***************************************************************************)
(* C9 (as claimed): a start of a name that was started before on the same  *)
(* thread uses the existing entry: the thread's list and hash buckets do   *)
(* not grow, whether the region is on or off and whatever the tablesize;   *)
(* and a thread's list never holds two regions with the same stored name.  *)
(***************************************************************************)
StartedBefore(th, name) == Occ(nest[th], name) # {} \/ Pairs(pairs[th], name) > 0

C9_InterningIdempotent ==
  [][ (TimingCall /\ CallerSlot >= 0 /\ nresets = 0
         /\ depthlimit = DEFAULT_DEPTHLIMIT
         /\ stackidx[CallerSlot] < MAX_STACK - 1)
      => LET t == CallerSlot
         IN /\ (ret'.op = "GPTLstart" /\ StartedBefore(ret'.th, ret'.name))
                 => /\ Len(timers'[t]) = Len(timers[t])
                    /\ hashtable'[t] = hashtable[t]
            /\ \A i, j \in 2..Len(timers'[t]) :
                 timers'[t][i].name = timers'[t][j].name => i = j
    ]_vars

(***************************************************************************)
(* C10 (as claimed): in every reachable state, for every region, the sum   *)
(* of its parent_count entries plus norphan equals count - nrecurse.       *)
(***************************************************************************)
RECURSIVE SeqSum(_)
SeqSum(s) == IF s = <<>> THEN 0 ELSE Head(s) + SeqSum(Tail(s))

C10_ParentCountsMatchCount ==
  \A t \in DOMAIN timers :
    \A i \in 1..Len(timers[t]) :
      SeqSum(timers[t][i].parent_count) + timers[t][i].norphan
        = timers[t][i].count - timers[t][i].nrecurse


(***************************************************************************)
(* C2: k nested starts of a region R that is not open, each issued at a    *)
(* depth below depthlimit, followed by k stops of R, all succeed and leave *)
(* R off                                                                   *)
(* with k more counts, k - 1 more recursions and the stack depth as it     *)
(* was.  From the first start to the last stop R is on and is the stack's  *)
(* entry right above the earlier depth: only the outermost pair pushes and *)
(* pops.  Exactly one wall-clock delta is accumulated, the time of the     *)
(* last stop minus the time of the first start.                            *)
(***************************************************************************)
C2_RecursionCountedOnce ==
  scen.phase # "pre"
  => \E t \in DOMAIN timers :
       /\ threadid[t] = Thr1
       /\ LET regs == NamedRegions(t, RName)
              R == timers[t][Least(regs)]
          IN /\ regs # {}
             /\ scen.ok
             /\ scen.phase # "done"
                  => /\ R.onflg
                     /\ stackidx[t] = scen.d0 + 1
                     /\ StackAt(World, t, scen.d0 + 1) = <<t, Least(regs)>>
                     /\ R.recurselvl = scen.k - scen.j - 1
                     /\ R.count = scen.c0 + scen.j
                     /\ R.nrecurse = scen.n0 + scen.j
                     /\ R.wall.last = scen.tfirst
                     /\ R.wall.accum = scen.a0
             /\ scen.phase = "done"
                  => /\ ~R.onflg
                     /\ R.recurselvl = 0
                     /\ R.count = scen.c0 + scen.k
                     /\ R.nrecurse = scen.n0 + scen.k - 1
                     /\ stackidx[t] = scen.d0
                     /\ R.wall.accum = scen.a0 + (scen.tlast - scen.tfirst)

\* three nested starts inside another open region, then three stops, with
\* time passing in between
C2_Witness ==
  /\ scen.phase = "done" /\ scen.k = 3
  /\ scen.d0 = 1 /\ scen.tlast > scen.tfirst
  /\ \E i \in NamedRegions(0, RName) : timers[0][i].count = 3

(***************************************************************************)
(* C5: a start or stop of a thread changes only that thread's timers, hash *)
(* table, call stack and stack index, and its outcome depends on nothing   *)
(* of the other threads: under every interleaving the thread's call        *)
(* returns what it returns when the thread runs alone and the thread's     *)
(* regions, call stack and depth are the ones it has running alone.        *)
(***************************************************************************)
\* the timers of a list and the call stack with pointers reduced to the
\* position in the owner's list
Stats(tms) ==
  [i \in 1..Len(tms) |->
     [name |-> tms[i].name, onflg |-> tms[i].onflg, count |-> tms[i].count,
      nrecurse |-> tms[i].nrecurse, recurselvl |-> tms[i].recurselvl,
      wall |-> tms[i].wall, parent_count |-> tms[i].parent_count,
      norphan |-> tms[i].norphan,
      parent |-> [n \in 1..Len(tms[i].parent) |-> tms[i].parent[n][2]]]]

StackOf(cs) == [i \in DOMAIN cs |-> cs[i][2]]

C5_ThreadIsolation ==
  [][ (TimingCall /\ CallerSlot >= 0)
      => LET t == CallerSlot
             th == ret'.th
             alone == IF ret'.op = "GPTLstart"
                      THEN GPTLstart_t(solo[th], 0, ret'.name)
                      ELSE GPTLstop_t(solo[th], 0, ret'.name,
                                      IF wallstats THEN now ELSE 0)
         IN /\ \A u \in Slots \ {t} :
                 /\ timers'[u] = timers[u]
                 /\ hashtable'[u] = hashtable[u]
                 /\ callstack'[u] = callstack[u]
                 /\ stackidx'[u] = stackidx[u]
                 /\ max_name_len'[u] = max_name_len[u]
            /\ ret'.rc = alone.rc
            /\ Stats(timers'[t]) = Stats(solo'[th].timers[0])
            /\ StackOf(callstack'[t]) = StackOf(solo'[th].callstack[0])
            /\ stackidx'[t] = solo'[th].stackidx[0]
            /\ DOMAIN hashtable'[t] = DOMAIN solo'[th].hashtable[0]
    ]_vars

\* both threads are registered, have interleaved calls of the same name,
\* and are in different states
C5_Witness ==
  /\ nthreads = 2 /\ ncalls >= 4
  /\ NamedRegions(0, NameA) # {} /\ NamedRegions(1, NameA) # {}
  /\ \E i \in NamedRegions(0, NameA), j \in NamedRegions(1, NameA) :
       /\ timers[0][i].onflg /\ ~timers[1][j].onflg
       /\ timers[1][j].count = 1
  /\ stackidx[0] # stackidx[1]

(***************************************************************************)
(* C6: get_thread_num gives each thread an index in [0, maxthreads), the   *)
(* same on every call of that thread, different from the index of every    *)
(* other thread; the indices handed out are exactly 0 .. nthreads-1.       *)
(***************************************************************************)
Assigned ==
  {loc[th].retval : th \in {x \in Threads : pc[x] \in {"unlock", "return"}}} \ {ERR}

C6_ThreadRegistry ==
  initialized
  => /\ \A th \in Threads : \A k \in 1..Len(got[th]) :
          got[th][k] # ERR
          => /\ got[th][k] \in 0..(maxthreads - 1)
             /\ \A l \in k..Len(got[th]) : got[th][l] = got[th][k]
     /\ \A th1, th2 \in Threads :
          \A k \in 1..Len(got[th1]), l \in 1..Len(got[th2]) :
            (got[th1][k] # ERR /\ got[th1][k] = got[th2][l]) => th1 = th2
     /\ (UNION {{got[th][k] : k \in 1..Len(got[th])} : th \in Threads}) \ {ERR}
          \subseteq 0..(nthreads - 1)
     /\ ({got[th][Len(got[th])] : th \in {x \in Threads : got[x] # <<>>}}
           \cup Assigned) \ {ERR}
          = 0..(nthreads - 1)

\* two threads have each called twice and hold different indices
C6_Witness ==
  /\ nthreads >= 2
  /\ Len(got[Thr1]) = 2 /\ Len(got[Thr2]) = 2
  /\ got[Thr1][1] = got[Thr1][2] /\ got[Thr2][1] = got[Thr2][2]
  /\ got[Thr1][1] >= 0 /\ got[Thr2][1] >= 0 /\ got[Thr1][1] # got[Thr2][1]


(***************************************************************************)
(* C11 (as claimed): in every reachable state, after any sequence of       *)
(* start, stop, reset, enable and disable calls, every region has          *)
(* count >= nrecurse >= 0.                                                 *)
(***************************************************************************)
C11_CountCoversRecursions ==
  \A t \in DOMAIN timers :
    \A i \in 1..Len(timers[t]) :
      timers[t][i].count >= timers[t][i].nrecurse /\ timers[t][i].nrecurse >= 0

(***************************************************************************)
(* The children relation                                                   *)
(***************************************************************************)
ChildSet(tms, p) == {tms[p[1]][p[2]].children[n] : n \in 1..Len(tms[p[1]][p[2]].children)}

RECURSIVE Grow(_, _, _)
Grow(tms, S, k) ==
  IF k = 0 THEN S ELSE Grow(tms, S \cup UNION {ChildSet(tms, s) : s \in S}, k - 1)

\* the timers reached from p by one or more children edges
Descendants(tms, p) == Grow(tms, ChildSet(tms, p), Len(tms[p[1]]))

Acyclic(tms) ==
  \A t \in DOMAIN tms : \A i \in 1..Len(tms[t]) : <<t, i>> \notin Descendants(tms, <<t, i>>)

(***************************************************************************)
(* C12: under each of the four methods and for any recorded parent arrays  *)
(* (A under B and B under A, a region as its own parent), construct_tree   *)
(* never makes a cycle: a proposed edge whose parent is the child or is    *)
(* already reachable from the child is rejected, and the children relation *)
(* is acyclic after every newchild call and when GPTLpr_file returns.      *)
(***************************************************************************)
C12_TreeHasNoCycle ==
  [][(ret'.op = "GPTLpr_file" /\ obs'.nprs = obs.nprs + 1) =>
       /\ Acyclic(timers')
       /\ \A t \in 0..(nthreads - 1) :
            LET edges == ProposedEdges(World, t, method, 1)
            IN /\ timers'[t] = TreeAfter(World, edges, Len(edges)).timers[t]
               /\ \A k \in 1..Len(edges) :
                    LET before == TreeAfter(World, edges, k - 1).timers
                        after == TreeAfter(World, edges, k).timers
                        p == edges[k][1]
                        c == edges[k][2]
                    IN /\ (p = c \/ p \in Descendants(before, c)) => after = before
                       /\ Acyclic(after)]_vars

\* GPTLpr_file has built a full tree in which an edge from a recorded parent
\* p to its child c is missing because p was reachable from c, and another
\* because the region is its own parent
C12_Witness ==
  /\ obs.nprs = 1 /\ method = "GPTLfull_tree"
  /\ \E c \in TreeNodes : \E n \in 1..Len(timers[0][c[2]].parent) :
       LET p == timers[0][c[2]].parent[n]
       IN p # c /\ c \notin ChildSet(timers, p) /\ p \in Descendants(timers, c)
  /\ \E c \in TreeNodes : \E n \in 1..Len(timers[0][c[2]].parent) :
       timers[0][c[2]].parent[n] = c /\ c \notin ChildSet(timers, c)

(***************************************************************************)
(* C13 (as claimed): when GPTLpr_file has constructed the tree with the    *)
(* method full_tree, after any sequence of starts and stops, every region  *)
(* of the thread's list is reachable from the root by children edges,      *)
(* rejected edges or not.                                                  *)
(***************************************************************************)
C13_EveryRegionUnderRoot ==
  (ret.op = "GPTLpr_file" /\ ret.rc = 0 /\ method = "GPTLfull_tree") =>
    \A t \in 0..(nthreads - 1) :
      \A i \in 2..Len(timers[t]) : <<t, i>> \in Descendants(timers, <<t, 1>>)

(***************************************************************************)
(* C14: a successful GPTLreset, in any state, leaves every region of every *)
(* registered thread with count 0, accumulated wallclock 0, accumulated    *)
(* user and system CPU time 0 and onflg false, and what GPTLget_nregions   *)
(* and GPTLget_regionname report of every thread (the known names and the  *)
(* order of their first starts) is what they reported before.              *)
(***************************************************************************)
C14_ResetZeroesStatistics ==
  [][(ret'.op = "GPTLreset" /\ nresets' = nresets + 1 /\ ret'.rc = 0) =>
       /\ \A t \in 0..(nthreads' - 1) :
            \A i \in 1..Len(timers'[t]) :
              /\ timers'[t][i].count = 0
              /\ timers'[t][i].wall.accum = 0
              /\ timers'[t][i].cpu.accum_utime = 0
              /\ timers'[t][i].cpu.accum_stime = 0
              /\ ~timers'[t][i].onflg
       /\ nthreads' = nthreads
       /\ \A t \in Slots :
            /\ GPTLget_nregions(timers', t) = GPTLget_nregions(timers, t)
            /\ GPTLget_nregions(timers, t).rc = 0
            /\ \A region \in 0..Len(timers[t]) :
                 GPTLget_regionname(timers', t, region, MAX_CHARS)
                   = GPTLget_regionname(timers, t, region, MAX_CHARS)]_vars

\* GPTLreset has just zeroed a state in which both threads had a region,
\* one of them with a count, wallclock and CPU time accumulated
C14_Witness ==
  /\ ret.op = "GPTLreset" /\ ret.rc = 0 /\ nresets = 1
  /\ nthreads = 2 /\ cpustats
  /\ now > 0 /\ cputime.usr + cputime.sys > 0
  /\ \E n \in PreNames : Pairs(pairs[Thr1], n) > 0
  /\ GPTLget_nregions(timers, 0).nregions = 1
  /\ GPTLget_nregions(timers, 1).nregions = 1
  /\ \A t \in 0..1 : \A i \in 1..Len(timers[t]) :
       timers[t][i].count = 0 /\ ~timers[t][i].onflg /\ timers[t][i].wall.accum = 0

(***************************************************************************)
(* C15: in a sequence of calls of one thread, made with GPTLstart_handle   *)
(* and GPTLstop_handle and one handle per name that is 0 at first, every   *)
(* call returns what the GPTLstart or GPTLstop of the same name returns in *)
(* the same sequence made by name, and leaves the same regions (names,     *)
(* count, nrecurse, onflg, recurselvl, wallclock, parents and parent       *)
(* counts), the same call stack and the same stack depth; a handle is 0 or *)
(* points to the region of its name.                                       *)
(***************************************************************************)
C15_HandleEquivalence ==
  [][ (TimingCall /\ CallerSlot >= 0)
      => LET th == ret'.th
             byname == IF ret'.op = "GPTLstart_handle"
                       THEN GPTLstart_t(solo[th], 0, ret'.name)
                       ELSE GPTLstop_t(solo[th], 0, ret'.name,
                                       IF wallstats THEN now ELSE 0)
         IN /\ ret'.op \in {"GPTLstart_handle", "GPTLstop_handle"}
            /\ ret'.rc = byname.rc
            /\ Stats(timers'[0]) = Stats(byname.w.timers[0])
            /\ StackOf(callstack'[0]) = StackOf(byname.w.callstack[0])
            /\ stackidx'[0] = byname.w.stackidx[0]
            /\ \A n \in DOMAIN handle' :
                 handle'[n] # NULL /\ Deref(World', handle'[n]).name = n
    ]_vars

\* a stop through a handle that is still 0 has just failed, after a region
\* was started recursively and stopped through its handle
C15_Witness ==
  /\ ret.op = "GPTLstop_handle" /\ ret.rc = ERR /\ HandleOf(ret.name) = NULL
  /\ \E n \in Names : HandleOf(n) # NULL /\ Deref(World, HandleOf(n)).nrecurse > 0
  /\ Pairs(pairs[Thr1], NameA) > 0

(***************************************************************************)
(* C16 (as claimed): with wallclock statistics on and a clock that never   *)
(* goes back, in every state the accumulated wallclock of a region is the  *)
(* sum, its max the largest and its min the smallest of the deltas of its  *)
(* outermost start/stop pairs completed since GPTLinitialize or the last   *)
(* GPTLreset; so the first completed pair sets min = max = its delta, also *)
(* when it enclosed recursive starts and stops.                            *)
(***************************************************************************)
SeqMax(s) == Greatest({s[i] : i \in 1..Len(s)})

SeqMin(s) == Least({s[i] : i \in 1..Len(s)})

C16_WallStatistics ==
  (initialized /\ wallstats) =>
    \A i \in 2..Len(timers[0]) :
      LET tm == timers[0][i]
          d == ObsAt(obs.deltas[Thr1], tm.name, <<>>)
      IN /\ tm.wall.accum = SeqSum(d)
         /\ d # <<>> => (tm.wall.max = SeqMax(d) /\ tm.wall.min = SeqMin(d))

(***************************************************************************)
(* C17 (as claimed): a timing call (GPTLstart, GPTLstop, their handle and  *)
(* instr variants) made while the library is not initialized, before       *)
(* GPTLinitialize or after GPTLfinalize, returns an error and changes no   *)
(* state, whatever GPTLenable and GPTLdisable calls preceded it.           *)
(***************************************************************************)
TimingOps == {"GPTLstart", "GPTLstop", "GPTLstart_handle", "GPTLstop_handle",
              "GPTLstart_instr", "GPTLstop_instr"}

C17_NotInitializedIsAnError ==
  [][(ncalls' = ncalls + 1 /\ ret'.op \in TimingOps /\ ~initialized) =>
       (ret'.rc = ERR /\ UNCHANGED prog)]_vars


(***************************************************************************)
(* C18 (as claimed): the lifecycle.  GPTLinitialize succeeds only when the *)
(* library is not initialized; called on an initialized library it returns *)
(* an error and leaves all state unchanged.  A successful GPTLinitialize   *)
(* gives every thread slot an empty region set: only the root, which is at *)
(* callstack index 0, and stackidx 0.  GPTLfinalize succeeds only when the *)
(* library is initialized; after it the library is uninitialized, all      *)
(* regions are gone and the options are back at their defaults.            *)
(***************************************************************************)
LifeStep(op) == obs'.nops = obs.nops + 1 /\ ret'.op = op

OptionsAtDefaults ==
  /\ wallstats = TRUE
  /\ cpustats = FALSE
  /\ overheadstats = TRUE
  /\ depthlimit = DEFAULT_DEPTHLIMIT
  /\ tablesize = DEFAULT_TABLE_SIZE
  /\ maxthreads = MAX_THREADS
  /\ method = "GPTLfull_tree"
  /\ funcidx = 0
  /\ disabled = FALSE

FreshThreads ==
  /\ DOMAIN timers = Slots
  /\ \A t \in Slots :
       /\ Len(timers[t]) = 1
       /\ timers[t][1].name = ROOTNAME
       /\ timers[t][1].count = 0
       /\ hashtable[t] = <<>>
       /\ stackidx[t] = 0
       /\ StackAt(World, t, 0) = <<t, 1>>

C18_Lifecycle ==
  [][/\ LifeStep("GPTLinitialize") =>
          /\ initialized => (ret'.rc = ERR /\ UNCHANGED prog)
          /\ ret'.rc = 0 => (~initialized /\ initialized' /\ FreshThreads')
          /\ (~initialized /\ nthreads = -1) => ret'.rc = 0
     /\ LifeStep("GPTLfinalize") =>
          /\ ret'.rc = 0 <=> initialized
          /\ ~initialized => UNCHANGED prog
          /\ initialized => (~initialized' /\ timers' = <<>> /\ hashtable' = <<>>
                              /\ OptionsAtDefaults')]_vars


(***************************************************************************)
(* C19: the configuration is frozen while the library is initialized.      *)
(* GPTLsetoption and GPTLsetutr called between GPTLinitialize and          *)
(* GPTLfinalize return an error and leave every configuration value (the   *)
(* statistics switches, depthlimit, tablesize, maxthreads, the print       *)
(* method and the selected time source) unchanged.                         *)
(***************************************************************************)
C19_ConfigurationFrozen ==
  [][((LifeStep("GPTLsetoption") \/ LifeStep("GPTLsetutr")) /\ initialized) =>
       (ret'.rc = ERR /\ UNCHANGED config /\ UNCHANGED prog)]_vars

\* GPTLsetutr was refused on an initialized library whose time source is not
\* the one asked for
C19_Witness ==
  /\ initialized
  /\ ret.op = "GPTLsetutr"
  /\ ret.rc = ERR
  /\ ret.name = "GPTLplacebo"
  /\ funclist[funcidx + 1] # "GPTLplacebo"

(***************************************************************************)
(* C20: while the library is disabled, GPTLstart and GPTLstop and their    *)
(* handle and instr variants return success and leave all state unchanged: *)
(* no region is created, and no count, onflg, recurselvl, parent count,    *)
(* timestamp or stack index changes.                                       *)
(***************************************************************************)
C20_DisabledIsInert ==
  [][(ncalls' = ncalls + 1 /\ ret'.op \in TimingOps /\ disabled) =>
       (ret'.rc = 0 /\ UNCHANGED prog)]_vars

\* a region that was started before GPTLdisable is stopped after it, and is
\* still on
C20_Witness ==
  /\ initialized
  /\ disabled
  /\ ret.op \in {"GPTLstop", "GPTLstop_handle", "GPTLstop_instr"}
  /\ ret.rc = 0
  /\ ncalls = 2
  /\ Len(timers[0]) = 2
  /\ timers[0][2].onflg
  /\ stackidx[0] = 1


(***************************************************************************)
(* C21 (as claimed): the stack index of every thread stays within the      *)
(* bounds of the per-thread callstack array, 0 <= stackidx[t] <=           *)
(* MAX_STACK - 1, in every reachable state, whatever starts and stops are  *)
(* issued (failing, recursive and depth-limited ones included) and         *)
(* whatever depth limit GPTLsetoption has accepted.                        *)
(***************************************************************************)
C21_StackIndexInBounds ==
  initialized =>
    \A t \in DOMAIN stackidx : 0 <= stackidx[t] /\ stackidx[t] <= MAX_STACK - 1


(***************************************************************************)
(* C22 (as claimed): a start that would raise the stack index above        *)
(* MAX_STACK - 1 (a start below the depth limit, of a region that is not   *)
(* on, at stack index MAX_STACK - 1) returns an error and leaves the state *)
(* as it was: no region is created or turned on, no parent is recorded and *)
(* the stack index is unchanged.  So, when the regions that did start have *)
(* all been stopped, the stack index is back at 0.                         *)
(***************************************************************************)
\* under the default depth limit and without GPTLreset: thread slot t has no
\* region on and its stack index is not 0
StackLeftOver(t) ==
  /\ depthlimit = DEFAULT_DEPTHLIMIT
  /\ nresets = 0
  /\ \A i \in 2..Len(timers[t]) : ~timers[t][i].onflg
  /\ stackidx[t] # 0

C22_OverflowIsInert ==
  [][ /\ (TimingCall /\ ret'.op = "GPTLstart" /\ CallerSlot >= 0
            /\ stackidx[CallerSlot] = MAX_STACK - 1
            /\ stackidx[CallerSlot] < depthlimit
            /\ \A i \in NamedRegions(CallerSlot, ret'.name) :
                 ~timers[CallerSlot][i].onflg)
         => (ret'.rc = ERR /\ world' = world)
      /\ \A t \in DOMAIN timers' : ~StackLeftOver(t)' ]_vars


(***************************************************************************)
(* C23 (as claimed): in every reachable state the onflg of a region is     *)
(* true iff the region is open on its thread, that is, iff it has received *)
(* a successful, non-suppressed outermost start not yet matched by its     *)
(* outermost stop; also after GPTLreset, GPTLenable and GPTLdisable.       *)
(***************************************************************************)
C23_OnIffOpen ==
  initialized =>
    \A t \in DOMAIN timers :
      threadid[t] = Thr1 =>
        /\ \A i \in 2..Len(timers[t]) :
             timers[t][i].onflg <=> timers[t][i].name \in DOMAIN obs.lvl[Thr1]
        /\ \A n \in DOMAIN obs.lvl[Thr1] : NamedRegions(t, n) # {}


(***************************************************************************)
(* C24 (as claimed): between GPTLinitialize and GPTLfinalize element 0 of  *)
(* the callstack of every thread is the sentinel root of that thread, and  *)
(* the root is on; no start, stop or reset turns the root off, replaces it *)
(* at index 0 or gives it a parent.                                        *)
(***************************************************************************)
C24_SentinelRoot ==
  initialized =>
    \A t \in DOMAIN timers :
      /\ StackAt(World, t, 0) = <<t, 1>>
      /\ timers[t][1].name = ROOTNAME
      /\ timers[t][1].onflg
      /\ timers[t][1].parent = <<>>
      /\ timers[t][1].norphan = 0


(***************************************************************************)
(* C25 (as claimed): the parent tracking rule.  On every start of a region *)
(* r that is neither recursive nor suppressed by the depth limit: if the   *)
(* callstack element below r is the sentinel root, r.norphan goes up by    *)
(* one and the root is not added to r.parent; otherwise the count of that  *)
(* element in r.parent goes up by one, or it is appended to r.parent with  *)
(* count 1 if it was not recorded yet.                                     *)
(***************************************************************************)
\* the Timer of thread slot t stored under name before the step, as
\* allocated if there is none yet; and after the step
RegionBefore(t, name) ==
  IF NamedRegions(t, name) = {} THEN NewTimer(name)
  ELSE timers[t][Least(NamedRegions(t, name))]

RegionAfter(t, name) ==
  timers'[t][Least({i \in 2..Len(timers'[t]) : timers'[t][i].name = name})]

ParentsWellFormed(tm) ==
  /\ Len(tm.parent_count) = Len(tm.parent)
  /\ \A i, j \in 1..Len(tm.parent) : tm.parent[i] = tm.parent[j] => i = j
  /\ \A i \in 1..Len(tm.parent) : tm.parent_count[i] >= 1

C26_ParentsDistinctAndCounted ==
  [][ /\ \A t \in DOMAIN timers' : \A i \in 1..Len(timers'[t]) :
           ParentsWellFormed(timers'[t][i])
      /\ (TimingCall /\ ret'.op = "GPTLstart" /\ ret'.rc = 0 /\ CallerSlot >= 0
            /\ stackidx[CallerSlot] < depthlimit
            /\ ~RegionBefore(CallerSlot, ret'.name).onflg
            /\ Len(RegionBefore(CallerSlot, ret'.name).parent) = 1
            /\ RegionBefore(CallerSlot, ret'.name).parent_count = <<1>>
            /\ RegionBefore(CallerSlot, ret'.name).parent[1] #
                 StackAt(World, CallerSlot, stackidx[CallerSlot]))
         => /\ Len(RegionAfter(CallerSlot, ret'.name).parent) = 2
            /\ RegionAfter(CallerSlot, ret'.name).parent =
                 <<RegionBefore(CallerSlot, ret'.name).parent[1],
                   StackAt(World, CallerSlot, stackidx[CallerSlot])>>
            /\ RegionAfter(CallerSlot, ret'.name).parent_count = <<1, 1>>
    ]_vars

\* a region has been started once under each of two regions other than the
\* root
C26_Witness ==
  /\ initialized
  /\ \E i \in 2..Len(timers[0]) :
       /\ Len(timers[0][i].parent) = 2
       /\ timers[0][i].parent_count = <<1, 1>>
       /\ timers[0][i].parent[1] # <<0, 1>>
       /\ timers[0][i].parent[2] # <<0, 1>>
       /\ timers[0][i].parent[1] # timers[0][i].parent[2]


(***************************************************************************)
(* C27: thread overflow in get_thread_num (THREADED_PTHREADS).  When       *)
(* maxthreads threads are registered, a further thread that reaches the    *)
(* test under the mutex gets the error: no slot is written, nthreads is    *)
(* unchanged (so the registered threads keep their indices) and the mutex  *)
(* is released; the call of a thread that is not registered returns the    *)
(* error while the registry is full.  The mutex is only ever held by a     *)
(* thread inside the critical section, and every thread waiting for the    *)
(* mutex gets it.                                                          *)
(***************************************************************************)
Registered(th) == \E t \in 0..(nthreads - 1) : threadid[t] = th

C27_ThreadOverflow ==
  /\ [][ \A th \in Threads :
           /\ (pc[th] = "check" /\ pc'[th] # "check" /\ nthreads >= maxthreads)
                => /\ loc'[th].retval = ERR
                   /\ pc'[th] = "return"
                   /\ nthreads' = nthreads
                   /\ threadid' = threadid
                   /\ t_mutex' = NOTHREAD
           /\ (pc[th] = "return" /\ pc'[th] = "idle"
                 /\ nthreads >= maxthreads /\ ~Registered(th))
                => got'[th][Len(got'[th])] = ERR ]_vars
  /\ [](initialized =>
          /\ nthreads <= maxthreads
          /\ t_mutex # NOTHREAD => pc[t_mutex] \in {"check", "store", "incr", "unlock"})
  /\ \A th \in Threads : (pc[th] = "lock") ~> (pc[th] = "check")

\* the third thread has been refused twice, the second time after waiting for
\* the mutex again, and the two registered threads still get their indices
C27_Witness ==
  /\ nthreads = maxthreads
  /\ \E th \in Threads :
       /\ got[th] = <<ERR, ERR>>
       /\ ~Registered(th)
       /\ \A o \in Threads \ {th} :
            /\ Registered(o)
            /\ Len(got[o]) = 2
            /\ got[o][1] = got[o][2]
            /\ threadid[got[o][2]] = o
  /\ t_mutex = NOTHREAD

(***************************************************************************)
(* C28: the fallback of the time source.  If the init routine of the       *)
(* selected underlying timing routine fails in GPTLinitialize, the call    *)
(* still returns success and the routine in effect afterwards is entry 0   *)
(* of funclist, gettimeofday; if the init routine succeeds, the selected   *)
(* routine stays in effect.                                                *)
(***************************************************************************)
C28_TimeSourceFallback ==
  [][ (LifeStep("GPTLinitialize") /\ ~initialized /\ nthreads = -1)
      => /\ ret'.rc = 0
         /\ initialized'
         /\ IF funcinit(funcidx) < 0
            THEN funcidx' = 0 /\ funclist[funcidx' + 1] = "GPTLgettimeofday"
            ELSE funcidx' = funcidx ]_vars

\* GPTLinitialize has succeeded right after nanotime, which is not available,
\* was selected: gettimeofday is in effect
C28_Witness ==
  /\ initialized
  /\ ret.op = "GPTLinitialize"
  /\ ret.rc = 0
  /\ obs.utr = "GPTLnanotime"
  /\ obs.nops = 3
  /\ funcinit(1) < 0
  /\ funclist[funcidx + 1] = "GPTLgettimeofday"

(***************************************************************************)
(* C29 (as claimed): GPTLsetoption called before GPTLinitialize with a     *)
(* value out of range (a tablesize below 1, a maxthreads below 1, or a     *)
(* print method that is none of first_parent, last_parent, most_frequent   *)
(* and full_tree) returns an error and leaves the previous value of the    *)
(* option in force.                                                        *)
(***************************************************************************)
OutOfRange(option, val) ==
  \/ option = "GPTLtablesize" /\ val < 1
  \/ option = "GPTLmaxthreads" /\ val < 1
  \/ option = "GPTLprint_method" /\ val \notin Methods

C29_OutOfRangeIsRefused ==
  [][ (LifeStep("GPTLsetoption") /\ ~initialized /\ OutOfRange(ret'.name, obs'.val))
      => /\ ret'.rc = ERR
         /\ UNCHANGED <<tablesize, maxthreads, method>> ]_vars


(***************************************************************************)
(* The section sorted by timer, as stated: for a region of thread 0, the   *)
(* row of thread 0, then one row for every other registered thread that    *)
(* has a region of the same name, in the order of the threads, then a SUM  *)
(* row: its count and accumulated time are the sums over those rows, its   *)
(* max and min their extremes.  Of a row, the label, the name, the count   *)
(* and the wallclock columns are compared.                                 *)
(***************************************************************************)
RowKey(label, name, count, accum, max, min) ==
  [label |-> label, name |-> name, count |-> count,
   wall |-> IF wallstats THEN <<accum, max, min>> ELSE <<>>]

KeyOf(row) == [label |-> row.label, name |-> row.name, count |-> row.count,
               wall |-> row.wall]

\* the regions named name of the threads t, t + 1, ..: <<thread, Timer>>
RECURSIVE OtherTimers(_, _, _)
OtherTimers(tms, name, t) ==
  IF t >= nthreads THEN <<>>
  ELSE LET hits == {k \in 2..Len(tms[t]) : tms[t][k].name = name}
       IN (IF hits = {} THEN <<>> ELSE <<<<t, tms[t][Least(hits)]>>>>)
            \o OtherTimers(tms, name, t + 1)

StatedBlock(tms, i) ==
  LET tm0 == tms[0][i]
      os == OtherTimers(tms, tm0.name, 1)
      all == <<tm0>> \o [k \in 1..Len(os) |-> os[k][2]]
  IN <<RowKey(ThdLabel(0), tm0.name, tm0.count, tm0.wall.accum, tm0.wall.max,
              tm0.wall.min)>>
       \o [k \in 1..Len(os) |->
             RowKey(ThdLabel(os[k][1]), os[k][2].name, os[k][2].count,
                    os[k][2].wall.accum, os[k][2].wall.max, os[k][2].wall.min)]
       \o <<RowKey("SUM", tm0.name,
                   SeqSum([k \in 1..Len(all) |-> all[k].count]),
                   SeqSum([k \in 1..Len(all) |-> all[k].wall.accum]),
                   SeqMax([k \in 1..Len(all) |-> all[k].wall.max]),
                   SeqMin([k \in 1..Len(all) |-> all[k].wall.min]))>>

\* the blocks of the regions of thread 0 from the i-th on; with shared, only
\* of the regions that another thread has too
RECURSIVE StatedRows(_, _, _)
StatedRows(tms, i, shared) ==
  IF i > Len(tms[0]) THEN <<>>
  ELSE (IF shared /\ OtherTimers(tms, tms[0][i].name, 1) = <<>> THEN <<>>
        ELSE StatedBlock(tms, i))
         \o StatedRows(tms, i + 1, shared)

Printed == initialized /\ obs.nprs > 0 /\ dopr_threadsort /\ nthreads > 1

(***************************************************************************)
(* C30 (as claimed): when thread sorting is enabled and more than one      *)
(* thread is registered, the section prints for each region of thread 0    *)
(* the row of thread 0, the rows of the other threads that have a region   *)
(* of the same name, and the SUM row.                                      *)
(***************************************************************************)
C30_EveryRegionOfThreadZero ==
  Printed =>
    [k \in 1..Len(obs.out) |-> KeyOf(obs.out[k])] = StatedRows(timers, 2, FALSE)

(***************************************************************************)
(* C30 (amended): the same for each region of thread 0 that at least one   *)
(* other thread has too; for a region that only thread 0 has, the section  *)
(* prints nothing.                                                         *)
(***************************************************************************)
C30_SharedRegionsOfThreadZero ==
  Printed =>
    [k \in 1..Len(obs.out) |-> KeyOf(obs.out[k])] = StatedRows(timers, 2, TRUE)

\* two threads have each timed A once, for 1 and for 2 units: the SUM row
\* counts 2, accumulates 3, and has max 2 and min 1
C30_Witness ==
  /\ Printed
  /\ Len(obs.out) = 3
  /\ obs.out[1].label = "000" /\ obs.out[1].count = 1
  /\ obs.out[2].label = "001" /\ obs.out[2].count = 1
  /\ obs.out[1].wall[1] > obs.out[2].wall[1]
  /\ obs.out[3].label = "SUM" /\ obs.out[3].count = 2
  /\ obs.out[3].wall = <<3, 2, 1>>


(***************************************************************************)
(* The children entries one GPTLpr_file adds: newchild appends, so they    *)
(* are the entries of the children array of p after the step beyond its    *)
(* length before the step                                                  *)
(***************************************************************************)
AddedUnder(p, r) ==
  LET before == timers[p[1]][p[2]].children
      after == timers'[p[1]][p[2]].children
  IN Cardinality({n \in (Len(before) + 1)..Len(after) : after[n] = r})

RegionPtrs ==
  UNION {{<<t, i>> : i \in 1..Len(timers[t])} : t \in DOMAIN timers}

\* the parent the policy selects for a region with at least one parent
SelectedParent(tm, meth) ==
  CASE meth = "GPTLfirst_parent" -> tm.parent[1]
    [] meth = "GPTLlast_parent" -> tm.parent[Len(tm.parent)]
    [] meth = "GPTLmost_frequent" ->
         tm.parent[CHOOSE n \in 1..Len(tm.parent) :
                     /\ \A m \in 1..Len(tm.parent) :
                          tm.parent_count[m] <= tm.parent_count[n]
                     /\ \A m \in 1..(n - 1) :
                          tm.parent_count[m] # tm.parent_count[n]]

\* newchild refuses the edge from p to r: p is r, or p is below r
Refused(p, r) == p = r \/ is_descendant(World, r, p)

TreeParents(r) ==
  {p \in RegionPtrs : \E n \in 1..Len(Deref(World, p).children) :
                        Deref(World, p).children[n] = r}

(***************************************************************************)
(* C31: one GPTLpr_file adds, for a region r with at least one recorded    *)
(* parent, under first_parent, last_parent and most_frequent at most one   *)
(* child entry, under the parent the policy selects (parent[0],            *)
(* parent[nparent-1], the earliest parent of the greatest parent_count),   *)
(* and exactly one unless newchild refuses that edge; under full_tree at   *)
(* most one entry under every recorded parent, exactly one unless newchild *)
(* refuses it, and none under any other region; a region without recorded  *)
(* parent gets no entry.  Under the first three policies every region has  *)
(* at most one tree parent in every reachable state.                       *)
(***************************************************************************)
C31_ParentSelectionPolicies ==
  /\ [][ (obs'.nprs = obs.nprs + 1 /\ ret'.rc = 0)
         => \A r \in RegionPtrs :
              LET tm == Deref(World, r)
              IN IF Len(tm.parent) = 0
                 THEN \A p \in RegionPtrs : AddedUnder(p, r) = 0
                 ELSE IF method = "GPTLfull_tree"
                 THEN \A p \in RegionPtrs :
                        IF \E n \in 1..Len(tm.parent) : tm.parent[n] = p
                        THEN /\ AddedUnder(p, r) <= 1
                             /\ AddedUnder(p, r) = 0 => Refused(p, r)'
                        ELSE AddedUnder(p, r) = 0
                 ELSE LET sel == SelectedParent(tm, method)
                      IN /\ \A p \in RegionPtrs \ {sel} : AddedUnder(p, r) = 0
                         /\ AddedUnder(sel, r) <= 1
                         /\ AddedUnder(sel, r) = 0 => Refused(sel, r)'
       ]_vars
  /\ [](method # "GPTLfull_tree"
          => \A r \in RegionPtrs : Cardinality(TreeParents(r)) <= 1)

\* after a report under most_frequent, a region recorded once under each
\* of two parents is a child of the first of them only
C31_Witness ==
  /\ obs.nprs = 1 /\ method = "GPTLmost_frequent"
  /\ \E r \in RegionPtrs :
       LET tm == Deref(World, r)
       IN /\ tm.parent_count = <<1, 1>>
          /\ TreeParents(r) = {tm.parent[1]}


\* the bucket the stored name of a region hashes to, or its address if it
\* is the region of an instrumented function
BucketOf(tm) ==
  IF tm.address # 0 THEN (tm.address \div 16) % tablesize
  ELSE HashSum(tm.name, 1) % tablesize

\* the places <<bucket, position>> of the hash table of slot t that hold p
PlacesOf(t, p) ==
  {bn \in UNION {{<<b, n>> : n \in 1..Len(hashtable[t][b])} : b \in DOMAIN hashtable[t]} :
     hashtable[t][bn[1]][bn[2]] = p}

(***************************************************************************)
(* C32: in every reachable state, for each thread, every entry of bucket b *)
(* is a region of that thread whose stored name (its address, for the      *)
(* region of an instrumented function) hashes to b; every region after the *)
(* root is in exactly one bucket, exactly once; and the list after the     *)
(* root holds the regions the thread has started, in the order of their    *)
(* first starts.                                                           *)
(***************************************************************************)
C32_HashIndexConsistency ==
  initialized =>
    \A t \in DOMAIN timers :
      /\ \A b \in DOMAIN hashtable[t] : \A n \in 1..Len(hashtable[t][b]) :
           LET p == hashtable[t][b][n]
           IN /\ p[1] = t /\ 2 <= p[2] /\ p[2] <= Len(timers[t])
              /\ BucketOf(Deref(World, p)) = b
      /\ \A i \in 2..Len(timers[t]) : Cardinality(PlacesOf(t, <<t, i>>)) = 1
      /\ [i \in 1..(Len(timers[t]) - 1) |->
            [name |-> timers[t][i + 1].name, address |-> timers[t][i + 1].address]]
           = IF t < nthreads THEN obs.first[threadid[t]] ELSE <<>>

\* a bucket of a table of size 2 holds a region started by name and the
\* region of an instrumented function, and both threads have regions
C32_Witness ==
  /\ tablesize = 2 /\ nthreads = 2
  /\ Len(timers[1]) >= 2
  /\ \E b \in DOMAIN hashtable[0] :
       /\ Len(hashtable[0][b]) = 2
       /\ Deref(World, hashtable[0][b][1]).address = 0
       /\ Deref(World, hashtable[0][b][2]).address # 0


\* the registered threads that have a region named name
Holders(name) == {t \in 0..(nthreads - 1) : NamedRegions(t, name) # {}}

HeldBy(t, name) == timers[t][Least(NamedRegions(t, name))]

Summarized == initialized /\ obs.nprs > 0 /\ ret.op = "GPTLpr_summary"

(***************************************************************************)
(* C33: the Global that get_threadstats returns for a name has, over the   *)
(* registered threads that have a region of that name, totcalls = the sum  *)
(* of their counts, wallmax = the largest and wallmin = the smallest of    *)
(* their accumulated wallclock times, and wallmax_t and wallmin_t are      *)
(* threads among them whose accumulated time is that maximum and minimum.  *)
(***************************************************************************)
C33_ThreadStats ==
  Summarized =>
    \A n \in 1..Len(obs.out) :
      LET g == obs.out[n]
          hs == Holders(g.name)
      IN /\ g.totcalls = SeqSum([t \in 1..nthreads |->
                                   IF t - 1 \in hs THEN HeldBy(t - 1, g.name).count
                                   ELSE 0])
         /\ \A t \in hs : /\ HeldBy(t, g.name).wall.accum <= g.wallmax
                          /\ HeldBy(t, g.name).wall.accum >= g.wallmin
         /\ g.wallmax_t \in hs /\ HeldBy(g.wallmax_t, g.name).wall.accum = g.wallmax
         /\ g.wallmin_t \in hs /\ HeldBy(g.wallmin_t, g.name).wall.accum = g.wallmin


\* after the step, the handle variable for name points to the region of
\* slot t named name
RefersAfter(t, name) ==
  LET h == IF name \in DOMAIN handle' THEN handle'[name] ELSE NULL
  IN /\ h # NULL
     /\ h[1] = t
     /\ h[2] \in {i \in 2..Len(timers'[t]) : timers'[t][i].name = name}

(***************************************************************************)
(* C34: after every GPTLstart_handle(name, &h) that returns success and is *)
(* not suppressed by the depth limit, h is not 0 and points to the region  *)
(* of the calling thread named name; and a GPTLstop_handle(name, &h) that  *)
(* follows such a start at once succeeds.                                  *)
(***************************************************************************)
C34_HandleIsFilledIn ==
  [][ /\ (TimingCall /\ ret'.op = "GPTLstart_handle" /\ ret'.rc = 0
            /\ CallerSlot >= 0 /\ stackidx[CallerSlot] < depthlimit)
        => RefersAfter(CallerSlot, ret'.name)
      /\ (TimingCall /\ ret'.op = "GPTLstop_handle"
            /\ ret.op = "GPTLstart_handle" /\ ret.rc = 0
            /\ ret'.name = ret.name /\ ret'.th = ret.th
            /\ CallerSlot >= 0 /\ stackidx[CallerSlot] <= depthlimit)
        => ret'.rc = 0
    ]_vars


(***************************************************************************)
(* C35: as long as GPTLreset has not been called since GPTLinitialize, for *)
(* every region that is off the sum of its parent_count entries plus       *)
(* norphan equals count - nrecurse, whatever starts, stops (overlapping    *)
(* and failing ones included), enables and disables have been issued.      *)
(***************************************************************************)
C35_QuiescentParentAccounting ==
  (initialized /\ nresets = 0) =>
    \A t \in DOMAIN timers : \A i \in 1..Len(timers[t]) :
      ~timers[t][i].onflg =>
        SeqSum(timers[t][i].parent_count) + timers[t][i].norphan
          = timers[t][i].count - timers[t][i].nrecurse

\* a region is off after a pair of start and stop with a recursive pair
\* inside: count 2, one recursion, one parent counted once
C35_Witness ==
  /\ initialized /\ nresets = 0
  /\ \E i \in 2..Len(timers[0]) :
       /\ ~timers[0][i].onflg
       /\ timers[0][i].count = 2 /\ timers[0][i].nrecurse = 1
       /\ timers[0][i].parent_count = <<1>>


\* the names of s in the order of their first occurrences
RECURSIVE FirstOccurrences(_)
FirstOccurrences(s) ==
  IF s = <<>> THEN <<>>
  ELSE LET r == FirstOccurrences(SubSeq(s, 1, Len(s) - 1))
       IN IF \E k \in 1..Len(r) : r[k] = s[Len(s)] THEN r ELSE Append(r, s[Len(s)])

\* the regions thread th has on, in the order of their outermost starts
OpenNames(th) == FirstOccurrences(nest[th])

\* how often p is counted as a parent in timer tm
CountedUnder(tm, p) ==
  SeqSum([n \in 1..Len(tm.parent) |->
            IF tm.parent[n] = p THEN tm.parent_count[n] ELSE 0])

(***************************************************************************)
(* C36: with no depth limit, a start that succeeds on a region r that is   *)
(* not on counts as parent of r the region the thread has started last     *)
(* among those still on, or the sentinel root if none is on; and in every  *)
(* state the callstack entries at the indices 1..stackidx are the regions  *)
(* that are on, in the order of their starts.                              *)
(***************************************************************************)
C36_CallGraphFidelity ==
  /\ [][ (TimingCall /\ ret'.op = "GPTLstart" /\ ret'.rc = 0 /\ CallerSlot >= 0
            /\ depthlimit = DEFAULT_DEPTHLIMIT
            /\ ~RegionBefore(CallerSlot, ret'.name).onflg)
         => LET t == CallerSlot
                on == OpenNames(ret'.th)
                p == IF on = <<>> THEN <<t, 1>>
                     ELSE <<t, Least(NamedRegions(t, on[Len(on)]))>>
            IN CountedUnder(RegionAfter(t, ret'.name), p)
                 = CountedUnder(RegionBefore(t, ret'.name), p) + 1
       ]_vars
  /\ []((initialized /\ depthlimit = DEFAULT_DEPTHLIMIT)
          => \A t \in 0..(nthreads - 1) :
               [k \in 1..stackidx[t] |-> Deref(World, StackAt(World, t, k)).name]
                 = OpenNames(threadid[t]))

(***************************************************************************)
(* C37: in every reachable state no region is among the entries of its own *)
(* parent array, whatever starts, stops and resets have been issued.       *)
(***************************************************************************)
C37_NoRegionIsItsOwnParent ==
  \A t \in DOMAIN timers : \A i \in 1..Len(timers[t]) :
    \A n \in 1..Len(timers[t][i].parent) : timers[t][i].parent[n] # <<t, i>>

\* how often r is listed among the children of p
ListedUnder(tms, p, r) ==
  Cardinality({n \in 1..Len(tms[p[1]][p[2]].children) :
                 tms[p[1]][p[2]].children[n] = r})

(***************************************************************************)
(* C38: a GPTLpr_file that follows a GPTLpr_file with no timing call in    *)
(* between adds no child entry: every region is listed under every parent  *)
(* as often as after the first report.                                     *)
(***************************************************************************)
C38_ReportIsIdempotent ==
  [][ (obs'.nprs = obs.nprs + 1 /\ obs.nprs >= 1
         /\ ret.op = "GPTLpr_file" /\ ret'.op = "GPTLpr_file")
      => \A p \in RegionPtrs, r \in RegionPtrs :
           ListedUnder(timers', p, r) = ListedUnder(timers, p, r)
    ]_vars

(***************************************************************************)
(* C39: a GPTLstart_handle or GPTLstop_handle of a thread leaves the       *)
(* regions of every other thread as they are, whichever thread has filled  *)
(* in the handle; the callstack of the calling thread holds regions of     *)
(* that thread only, and a call made below the depth limit with a handle   *)
(* that points to a region of another thread leaves the stack index of the *)
(* caller as it is.                                                        *)
(***************************************************************************)
C39_HandleCallsKeepToTheirThread ==
  [][ (TimingCall /\ ret'.op \in {"GPTLstart_handle", "GPTLstop_handle"}
         /\ CallerSlot >= 0)
      => LET t == CallerSlot
             h == HandleOf(ret'.name)
         IN /\ \A u \in (DOMAIN timers) \ {t} : timers'[u] = timers[u]
            /\ \A k \in DOMAIN callstack'[t] : callstack'[t][k][1] = t
            /\ (h # NULL /\ h[1] # t /\ stackidx[t] < depthlimit)
                 => stackidx'[t] = stackidx[t]
    ]_vars

(***************************************************************************)
(* C40: in every reachable state, after GPTLreset too, a region with       *)
(* recurselvl > 0 is on: a region that is off has recursion level 0.       *)
(***************************************************************************)
C40_RecursionLevelOnlyWhileOn ==
  initialized
    => \A t \in DOMAIN timers : \A i \in 1..Len(timers[t]) :
         timers[t][i].recurselvl > 0 => timers[t][i].onflg

====
